---- MODULE Spec2Model ----
(***************************************************************************)
(* Model of RepositoryHttp (src/unnamed/part_013, lines 131-486): the      *)
(* pending-read registry, the reference-counted subscriber views handed    *)
(* out by read(), and the promise wrappers of read/create/update/remove;   *)
(* and of the HttpClient instances (src/src/HttpClient.ts) they run on.    *)
(*                                                                         *)
(* A "request" is one call of HttpClient.request by a RepositoryHttp       *)
(* instance, together with the async wrapper (responsePromise) built       *)
(* around it; a "view" is one object returned by                           *)
(* _cloneRepositoryHttpReadPendingRequest.  The event loop is modelled at  *)
(* the granularity of promise jobs: settlement of the HTTP promise, of the *)
(* body decoding, and the then/catch job of each view are separate steps,  *)
(* and caller code (read, abort, ...) may run between any two of them.     *)
(***************************************************************************)
EXTENDS Integers, Sequences, FiniteSets, TLC

\* ---------------------------------------------------------------- bounds
MaxRequests == 2
MaxViews == 2
MaxClients == 3
MaxTokens == 2
MaxChars == 4
MaxCalls == 2

\* The RepositoryHttp instances, built on one client and one template.
Repositories == {1, 2}

\* Parameter maps the template renders, and one it cannot render (the
\* required path parameter is missing).
Params == {"pA", "pB"}
BadParams == {"pX"}
AllParams == Params \cup BadParams

\* Abort reasons.  The code copies a reason and never inspects it, so every
\* caller passes a reason of its own: the holder of view v passes
\* ViewReason(v), the holder of a request handle passes HandleReason(o).
NoReason == [by |-> "undefined", id |-> 0]
ViewReason(v) == [by |-> "view", id |-> v]
HandleReason(o) == [by |-> "handle", id |-> o]
ControllerReason(v) == [by |-> "controller", id |-> v]

\* The configured hashFunction (options.hashFunction), given by its value on
\* JSON.stringify(params): one fingerprint is 0, the others are not.
HashOf == [p \in AllParams |-> CASE p = "pA" -> 0 [] p = "pB" -> 1 [] OTHER -> 2]

\* ------------------------------------------------------- JavaScript values
\* Values an options.key / registry key can take, tagged with their typeof.
Undefined == [t |-> "undefined", n |-> 0, s |-> ""]
BoolKey(b) == [t |-> "boolean", n |-> IF b THEN 1 ELSE 0, s |-> ""]
NumKey(n) == [t |-> "number", n |-> n, s |-> ""]
StrKey(s) == [t |-> "string", n |-> 0, s |-> s]
False == BoolKey(FALSE)

\* The option values callers pass as options.key: those that use the
\* registry (omitted, or an explicit number), and the opt-out.
KeyedOptions == {Undefined, NumKey(0), NumKey(1)}
OptionKeys == KeyedOptions \cup {False}

\* JavaScript truthiness of a key value (`!key`, `key && ...`).
Truthy(key) ==
    CASE key.t = "undefined" -> FALSE
      [] key.t = "boolean" -> key.n = 1
      [] key.t = "number" -> key.n # 0
      [] key.t = "string" -> key.s # ""

\* ------------------------------------------------------------- HTTP side
\* Responses the transport can deliver.  A body is either a JSON array (its
\* items) or a single JSON value; `ok = FALSE` is a non-2xx response
\* obtained with throwHttpErrors disabled.  The registry only passes the
\* decoded response on, so the specifications of the registry use one
\* response and the one of the plain requests uses them all.
OkResponse ==
    [ok |-> TRUE, isArray |-> TRUE, items |-> <<"i1", "i2">>, value |-> "none",
     headers |-> {"X-Total-Count"}]

Responses ==
    { OkResponse,
      [ok |-> TRUE, isArray |-> FALSE, items |-> <<>>, value |-> "i1",
       headers |-> {}],
      [ok |-> FALSE, isArray |-> TRUE, items |-> <<>>, value |-> "none",
       headers |-> {}] }

\* The response headers the default metadata adapter looks at, and the
\* responses with every combination of them.
MetadataHeaders == {"Content-Language", "Accept-Language", "X-Total-Count"}
HeaderResponses == {[OkResponse EXCEPT !.headers = h] : h \in SUBSET MetadataHeaders}

NoResponse == [ok |-> FALSE, isArray |-> FALSE, items |-> <<>>, value |-> "none",
               headers |-> {}]

\* Errors a request can fail with, by the stage at which they arise.
HttpErrors == {"HTTPError", "NetworkError", "AbortError"}
JsonErrors == {"DecodeError", "AbortError"}

\* ------------------------------------------------------ promise outcomes
\* `keys` is the set of own properties of the resolved object.
Pending ==
    [state |-> "pending", keys |-> {}, ok |-> FALSE, aborted |-> FALSE,
     abortReason |-> NoReason, data |-> <<>>, item |-> "undefined",
     metadata |-> {}, error |-> "none"]

Rejected(error) == [Pending EXCEPT !.state = "rejected", !.error = error]

AbortedEnvelope(reason) ==
    [Pending EXCEPT !.state = "fulfilled", !.keys = {"ok", "aborted", "abortReason"},
                    !.ok = FALSE, !.aborted = TRUE, !.abortReason = reason]

DataEnvelope(data, metadata, ok) ==
    [Pending EXCEPT !.state = "fulfilled", !.keys = {"data", "item", "metadata", "ok"},
                    !.ok = ok, !.data = data,
                    !.item = IF Len(data) > 0 THEN data[1] ELSE "undefined",
                    !.metadata = metadata]

OkEnvelope(ok) ==
    [Pending EXCEPT !.state = "fulfilled", !.keys = {"ok"}, !.ok = ok]

VARIABLES
    built,                  \* the last call of UrlBuilder.build and what it returned
    hashed,                 \* the calls of Hash.cyrb53 and what they returned
    httpClientInstances,    \* the module's map from scope to HttpClient
    obtained,               \* what the calls of useHttpClient returned
    pluginCall,             \* the last call of the plugin API and its outcome
    composable,             \* the refs of one read composable and its queued jobs
    clients,                \* the HttpClient instances
    hashFunction,           \* RepositoryHttp._hashFunction, as params -> number
    readPendingRequests,    \* _readPendingRequests of each instance: key -> entry
    requests,               \* the calls of HttpClient.request, with their wrappers
    views                   \* the objects returned by the clone function

\* The state outside RepositoryHttp and HttpClient, and the state of
\* RepositoryHttp.
pluginVars == <<httpClientInstances, obtained, pluginCall>>
staticVars == <<built, hashed, pluginVars>>
utilityVars == <<staticVars, composable>>
repositoryVars == <<hashFunction, readPendingRequests, requests, views>>

vars == <<utilityVars, clients, hashFunction, readPendingRequests, requests, views>>

RequestIds == 1..Len(requests)
ViewIds == 1..Len(views)

\* No call of UrlBuilder.build yet.
NotBuilt == [called |-> FALSE]
NoCall == [fn |-> "none"]

\* The refs of useRepositoryHttp().read(params, { immediate: false }) before
\* its first execute(); `jobs` are the views whose responsePromise has
\* settled and whose then/catch job of execute has not run yet, in the
\* order in which they were queued.
NoValue == [defined |-> FALSE]
Value(value) == [defined |-> TRUE, value |-> value]
NewComposable ==
    [status |-> "idle", error |-> "undefined", data |-> NoValue,
     item |-> "undefined", metadata |-> NoValue, jobs |-> <<>>]

\* `new Map()`: the registry each instance is constructed with.
NewMap == [k \in {} |-> 0]

Init ==
    /\ built = NotBuilt
    /\ hashed = <<>>
    /\ httpClientInstances = NewMap
    /\ obtained = <<>>
    /\ pluginCall = NoCall
    /\ composable = NewComposable
    /\ clients = <<>>
    /\ hashFunction = HashOf
    /\ readPendingRequests = [this \in Repositories |-> NewMap]
    /\ requests = <<>>
    /\ views = <<>>

\* --------------------------------------------------------------- adapters
\* RepositoryHttp._responseAdapter (default): arrays pass through, any other
\* body is wrapped in a one-element array.
_responseAdapter(raw) == IF raw.isArray THEN raw.items ELSE <<raw.value>>

\* RepositoryHttp._metadataAdapter (default), as the set of keys of the map
\* it returns ({} stands for `undefined`).
_metadataAdapter(headers) ==
    LET m1 == IF "Content-Language" \in headers THEN {"contentLanguage"} ELSE {}
        m2 == IF "Accept-Language" \in headers THEN {"acceptLanguage"} ELSE m1
    IN  IF "X-Total-Count" \in headers THEN m2 \cup {"total"} ELSE m2

\* ------------------------------------------------------------ constructors
\* The object HttpClient.request returns, with the async wrapper built
\* around its responsePromise by instance `this`.  `count` is the count
\* field of the registry entry made for it (reads with a key only).
\* `abortCalls` and `abortArg` log the invocations of the returned abort
\* function.
NewRequest(this, method, key) ==
    [repo |-> this, method |-> method, key |-> key, stage |-> "http",
     aborted |-> FALSE, reason |-> NoReason,
     abortCalls |-> 0, abortArg |-> NoReason,
     response |-> NoResponse, error |-> "none", abortedAtCatch |-> FALSE,
     result |-> Pending, count |-> 0, abortController |-> 0]

\* The object _cloneRepositoryHttpReadPendingRequest returns: its own
\* AbortController and its own promise.  `delivered` says that the then/catch
\* job registered on the shared promise has run; `liveAtSettle` and
\* `liveAtDelivery` record whether the view's controller was not aborted
\* when the shared promise settled, and when that job ran.
NewView(request) ==
    [request |-> request, aborted |-> FALSE, reason |-> NoReason,
     result |-> Pending, delivered |-> FALSE, liveAtSettle |-> FALSE,
     liveAtDelivery |-> FALSE, abortController |-> FALSE,
     controllerAborted |-> FALSE]

\* A call whose URL could not be built: HttpClient.request threw out of the
\* verb method, so there is no promise, no handle and no network request.
Thrown(this, method) ==
    [NewRequest(this, method, False) EXCEPT !.stage = "thrown"]

\* ------------------------------------------------------------ HttpClient
\* Client options (HttpClientOptions), reduced to two of them; "undefined"
\* is an option that is not given.
NoOptions == [prefixUrl |-> "undefined", headers |-> "undefined"]
ClientOptions == [prefixUrl : {"undefined", "https://a/", "https://b/"},
                  headers : {"undefined", "h1"}]

\* The URL specs given to buildUrl: strings, as sequences of characters,
\* that begin with a slash or do not.
UrlSpecs == {<<"u", "s">>, <<"/", "u", "s">>, <<>>}

\* `a ?? b`, and a parameter a with the default b.
Coalesce(a, b) == IF a = "undefined" THEN b ELSE a

\* The scopes of the plugin API, and the options of its clients.
GLOBAL_SCOPE == "global"
Scopes == {GLOBAL_SCOPE, "apiV2"}
ScopeArgs == Scopes \cup {"undefined"}
PluginOptions == [prefixUrl : {"https://a/", "https://b/"},
                  headers : {"undefined"}]

\* ky.create(options) and kyInstance.extend(options): the options of the
\* new ky instance; an option that is given replaces the inherited one.
kyCreate(options) == options
kyExtend(inherited, options) ==
    [prefixUrl |-> Coalesce(options.prefixUrl, inherited.prefixUrl),
     headers |-> Coalesce(options.headers, inherited.headers)]

\* HttpClient.buildUrl (static): a string is returned as it is.
staticBuildUrl(url) == url

\* HttpClient.buildUrl: with a truthy _prefixUrl a leading slash is cut
\* off.
buildUrl(client, url) ==
    LET toReturn == staticBuildUrl(url)
    IN  IF /\ client._prefixUrl \notin {"undefined", ""}
           /\ Len(toReturn) > 0
           /\ toReturn[1] = "/"
        THEN Tail(toReturn)
        ELSE toReturn

\* The abort function returned by HttpClient.request:
\* (reason) => controller.abort(reason).  A second abort of the same
\* controller changes neither signal.aborted nor signal.reason.
requestAbort(req, reason) ==
    [req EXCEPT !.aborted = TRUE,
                !.reason = IF req.aborted THEN req.reason ELSE reason,
                !.abortCalls = @ + 1,
                !.abortArg = reason]

\* ------------------------------------------------------------ UrlBuilder
\* Strings are sequences of characters.  The character classes of the
\* token pattern /\/?:[_A-Z]\w*\??/gi.
Letters == {"a", "b", "e", "f", "l", "p", "q", "s", "u"}
Digits == {"0", "1", "2"}
IdentStart(c) == c \in Letters \cup {"_"}
WordChar(c) == c \in Letters \cup Digits \cup {"_"}

\* Parameter values, by their typeof and their String(value).
NumberOne == [type |-> "number", str |-> <<"1">>]
BooleanFalse == [type |-> "boolean", str |-> <<"f", "a", "l", "s", "e">>]
StringAB == [type |-> "string", str |-> <<"a", " ", "b">>]
StringEmpty == [type |-> "string", str |-> <<>>]
StringBlank == [type |-> "string", str |-> <<" ">>]
EmptyArray == [type |-> "object", str |-> <<>>]
UndefinedValue == [type |-> "undefined", str |-> <<>>]
ParamValues == {NumberOne, BooleanFalse, StringAB, StringEmpty, StringBlank,
                EmptyArray, UndefinedValue}

\* Parameter maps (ParamMap): objects with some of the keys p and q.
ParamKeys == {<<"p">>, <<"q">>}
ParamMaps == UNION {[keys -> ParamValues] : keys \in SUBSET ParamKeys}

\* Templates, written as a sequence of segments: the literal "/u", or a
\* placeholder ":key" with or without a leading "/" and a trailing "?".
Segments ==
    [kind : {"param"}, slash : BOOLEAN, key : {"p", "q"}, optional : BOOLEAN]
    \cup {[kind |-> "literal", slash |-> TRUE, key |-> "u", optional |-> FALSE]}
Templates == UNION {[1..n -> Segments] : n \in 0..MaxTokens}

SegmentString(seg) ==
    (IF seg.slash THEN <<"/">> ELSE <<>>)
    \o (IF seg.kind = "param" THEN <<":">> ELSE <<>>)
    \o <<seg.key>>
    \o (IF seg.optional THEN <<"?">> ELSE <<>>)

RECURSIVE TemplateString(_)
TemplateString(segs) ==
    IF segs = <<>> THEN <<>>
    ELSE SegmentString(Head(segs)) \o TemplateString(Tail(segs))

\* String.prototype.trim, for the one whitespace character of the model.
RECURSIVE trimStart(_)
trimStart(s) == IF s # <<>> /\ Head(s) = " " THEN trimStart(Tail(s)) ELSE s
RECURSIVE trimEnd(_)
trimEnd(s) ==
    IF s # <<>> /\ s[Len(s)] = " " THEN trimEnd(SubSeq(s, 1, Len(s) - 1)) ELSE s
trim(s) == trimEnd(trimStart(s))

\* encodeURIComponent: unreserved characters stay, the others are
\* percent-encoded.
RECURSIVE encodeURIComponent(_)
encodeURIComponent(s) ==
    IF s = <<>> THEN <<>>
    ELSE (CASE Head(s) = " " -> <<"%", "2", "0">>
            [] Head(s) = "/" -> <<"%", "2", "F">>
            [] Head(s) = "?" -> <<"%", "3", "F">>
            [] Head(s) = ":" -> <<"%", "3", "A">>
            [] OTHER -> <<Head(s)>>) \o encodeURIComponent(Tail(s))

\* UrlBuilder.validatePathParam.
validatePathParam(params, key) ==
    IF key \notin DOMAIN params
    THEN [valid |-> FALSE, message |-> [kind |-> "Missing value", key |-> key]]
    ELSE IF params[key].type \notin {"boolean", "string", "number"}
    THEN [valid |-> FALSE, message |-> [kind |-> "cannot be of type", key |-> key]]
    ELSE IF params[key].type = "string" /\ trim(params[key].str) = <<>>
    THEN [valid |-> FALSE,
          message |-> [kind |-> "cannot be an empty string", key |-> key]]
    ELSE [valid |-> TRUE, message |-> [kind |-> "undefined", key |-> key]]

\* The end (exclusive) of the run of \w characters of s that starts at i.
RECURSIVE WordEnd(_, _)
WordEnd(s, i) == IF i <= Len(s) /\ WordChar(s[i]) THEN WordEnd(s, i + 1) ELSE i

\* The end (exclusive) of the match of the token pattern at position i of
\* s, or 0 when it does not match there.
MatchAt(s, i) ==
    LET colon == IF s[i] = "/" THEN i + 1 ELSE i
    IN  IF colon + 1 <= Len(s) /\ s[colon] = ":" /\ IdentStart(s[colon + 1])
        THEN LET e == WordEnd(s, colon + 2)
             IN  IF e <= Len(s) /\ s[e] = "?" THEN e + 1 ELSE e
        ELSE 0

\* p.replace(/[:?/]/g, '').
PlaceholderKey(p) == SelectSeq(p, LAMBDA c : c \notin {":", "?", "/"})

Includes(p, c) == \E i \in 1..Len(p) : p[i] = c

\* A callback that leaves the "/" of an omitted optional token in place.
replacer_KeepsSeparator(p, params) ==
    LET key == PlaceholderKey(p)
        v == validatePathParam(params, key)
    IN  IF Includes(p, "?") /\ ~v.valid
        THEN [threw |-> FALSE, message |-> v.message,
              text |-> IF p[1] = "/" THEN <<"/">> ELSE <<>>, delete |-> {}]
        ELSE IF ~v.valid
        THEN [threw |-> TRUE, message |-> v.message, text |-> <<>>, delete |-> {}]
        ELSE LET encoded == encodeURIComponent(params[key].str)
             IN  [threw |-> FALSE, message |-> v.message,
                  text |-> IF p[1] = "/" THEN <<"/">> \o encoded ELSE encoded,
                  delete |-> {key}]

\* The replace callback of UrlBuilder.path for the token p: the text to put
\* in its place and the key to delete from remainingParams, or the error
\* it throws.
replacer(p, params) ==
    LET key == PlaceholderKey(p)
        v == validatePathParam(params, key)
    IN  IF Includes(p, "?") /\ ~v.valid
        THEN [threw |-> FALSE, message |-> v.message, text |-> <<>>, delete |-> {}]
        ELSE IF ~v.valid
        THEN [threw |-> TRUE, message |-> v.message, text |-> <<>>, delete |-> {}]
        ELSE LET encoded == encodeURIComponent(params[key].str)
             IN  [threw |-> FALSE, message |-> v.message,
                  text |-> IF p[1] = "/" THEN <<"/">> \o encoded ELSE encoded,
                  delete |-> {key}]

\* template.replace(pattern, callback), from position i on.  `acc` holds
\* the caller's params object, the working copy and the text so far.
RECURSIVE replace(_, _, _)
replace(s, i, acc) ==
    IF acc.threw \/ i > Len(s) THEN acc
    ELSE LET e == MatchAt(s, i)
         IN  IF e = 0
             THEN replace(s, i + 1,
                          [acc EXCEPT !.renderedPath = Append(@, s[i])])
             ELSE LET r == replacer(SubSeq(s, i, e - 1), acc.params)
                  IN  replace(s, e,
                         [acc EXCEPT
                            !.threw = r.threw,
                            !.message = r.message,
                            !.renderedPath = @ \o r.text,
                            !.remainingParams =
                                [k \in DOMAIN @ \ r.delete |-> @[k]]])

\* A path that deletes the consumed keys from the caller's object.
path_SharesParams(template, params) ==
    LET r == replace(template, 1,
                [threw |-> FALSE,
                 message |-> [kind |-> "undefined", key |-> <<>>],
                 params |-> params, remainingParams |-> params,
                 renderedPath |-> <<>>])
    IN  [r EXCEPT !.params = r.remainingParams]

\* UrlBuilder.path: `params` of the result is the caller's object after the
\* call.
path(template, params) ==
    replace(template, 1,
            [threw |-> FALSE, message |-> [kind |-> "undefined", key |-> <<>>],
             params |-> params, remainingParams |-> params,
             renderedPath |-> <<>>])

\* The query-string codec with the defaults of UrlBuilder.query, as the set
\* of key=value pairs it writes: undefined values and empty arrays are
\* skipped, a space is written as "+".
RECURSIVE encodeRFC1738(_)
encodeRFC1738(s) ==
    IF s = <<>> THEN <<>>
    ELSE (IF Head(s) = " " THEN <<"+">> ELSE <<Head(s)>>)
         \o encodeRFC1738(Tail(s))

query(params) ==
    {[key |-> k, value |-> encodeRFC1738(params[k].str)] :
        k \in {k \in DOMAIN params :
                  params[k].type \in {"boolean", "string", "number"}}}

\* UrlBuilder._join(part1, '?', part2), part2 being a set of pairs: is the
\* separator written.
_join(part1, part2) ==
    LET p1 == IF part1 # <<>> /\ part1[Len(part1)] = "?"
              THEN SubSeq(part1, 1, Len(part1) - 1) ELSE part1
    IN  [path |-> p1, separator |-> (p1 # <<>> /\ part2 # {}), query |-> part2]

NoUrl == [path |-> <<>>, separator |-> FALSE, query |-> {}]

\* UrlBuilder.build: keys with an undefined value are left out first.
build(template, params) ==
    LET cleanParams == [k \in {k \in DOMAIN params :
                                  params[k].type # "undefined"} |-> params[k]]
        rendered == path(template, cleanParams)
    IN  [threw |-> rendered.threw, message |-> rendered.message,
         params |-> params,
         renderedPath |-> rendered.renderedPath,
         remainingParams |-> rendered.remainingParams,
         url |-> IF rendered.threw THEN NoUrl
                 ELSE _join(rendered.renderedPath,
                            query(rendered.remainingParams))]

\* ------------------------------------------------------------------ Hash
\* A 32-bit word is its four bytes, least significant first; a number is
\* its digits in base 256, least significant first.
ToWord(n) == [i \in 1..4 |-> (n \div 256 ^ (i - 1)) % 256]

RECURSIVE XorByte(_, _)
XorByte(a, b) ==
    IF a = 0 THEN b
    ELSE IF b = 0 THEN a
    ELSE ((a + b) % 2) + 2 * XorByte(a \div 2, b \div 2)

RECURSIVE AndByte(_, _)
AndByte(a, b) ==
    IF a = 0 \/ b = 0 THEN 0
    ELSE ((a % 2) * (b % 2)) + 2 * AndByte(a \div 2, b \div 2)

\* x ^ y and x & y.
Xor32(x, y) == [i \in 1..4 |-> XorByte(x[i], y[i])]
And32(x, y) == [i \in 1..4 |-> AndByte(x[i], y[i])]

\* Math.imul(x, y): the low 32 bits of the product.
imul(x, y) ==
    LET s1 == x[1] * y[1]
        s2 == x[1] * y[2] + x[2] * y[1] + (s1 \div 256)
        s3 == x[1] * y[3] + x[2] * y[2] + x[3] * y[1] + (s2 \div 256)
        s4 == x[1] * y[4] + x[2] * y[3] + x[3] * y[2] + x[4] * y[1]
              + (s3 \div 256)
    IN  <<s1 % 256, s2 % 256, s3 % 256, s4 % 256>>

\* x >>> n.
ShiftRight(x, n) ==
    LET bytes == n \div 8
        bits == n % 8
        y == [i \in 1..5 |-> IF i + bytes <= 4 THEN x[i + bytes] ELSE 0]
    IN  [i \in 1..4 |->
            (y[i] \div 2 ^ bits) + (y[i + 1] % 2 ^ bits) * 2 ^ (8 - bits)]

\* a + b on numbers.
RECURSIVE AddDigits(_, _, _)
AddDigits(a, b, carry) ==
    IF a = <<>> /\ b = <<>> THEN (IF carry = 0 THEN <<>> ELSE <<carry>>)
    ELSE LET da == IF a = <<>> THEN 0 ELSE Head(a)
             db == IF b = <<>> THEN 0 ELSE Head(b)
             ta == IF a = <<>> THEN <<>> ELSE Tail(a)
             tb == IF b = <<>> THEN <<>> ELSE Tail(b)
         IN  <<(da + db + carry) % 256>>
             \o AddDigits(ta, tb, (da + db + carry) \div 256)

\* 4294967296 * n.
Times4294967296(n) == <<0, 0, 0, 0>> \o n

\* str.charCodeAt(i) for the characters of the model.
HashChars == {"e", "s", "t"}
charCode == [c \in HashChars |->
                CASE c = "e" -> 101 [] c = "s" -> 115 [] c = "t" -> 116]
HashStrings == UNION {[1..n -> HashChars] : n \in 0..MaxChars}
Seeds == {ToWord(0), ToWord(1), <<239, 190, 173, 222>>}

\* The loop of cyrb53 over the characters of str.
RECURSIVE cyrb53Loop(_, _)
cyrb53Loop(str, h) ==
    IF str = <<>> THEN h
    ELSE LET ch == ToWord(charCode[Head(str)])
         IN  cyrb53Loop(Tail(str),
                 [h1 |-> imul(Xor32(h.h1, ch), <<177, 121, 55, 158>>),
                  h2 |-> imul(Xor32(h.h2, ch), <<149, 100, 53, 95>>)])

\* h1 and h2 of cyrb53 before its return statement.
cyrb53Words(str, seed) ==
    LET h == cyrb53Loop(str, [h1 |-> Xor32(<<239, 190, 173, 222>>, seed),
                              h2 |-> Xor32(<<87, 206, 198, 65>>, seed)])
        h1 == Xor32(imul(Xor32(h.h1, ShiftRight(h.h1, 16)),
                         <<107, 202, 235, 133>>),
                    imul(Xor32(h.h2, ShiftRight(h.h2, 13)),
                         <<53, 174, 178, 194>>))
        h2 == Xor32(imul(Xor32(h.h2, ShiftRight(h.h2, 16)),
                         <<107, 202, 235, 133>>),
                    imul(Xor32(h1, ShiftRight(h1, 13)),
                         <<53, 174, 178, 194>>))
    IN  [h1 |-> h1, h2 |-> h2]

\* A cyrb53 that keeps 22 bits of h2.
cyrb53_WideMask(str, seed) ==
    LET h == cyrb53Words(str, seed)
    IN  AddDigits(Times4294967296(And32(<<255, 255, 63, 0>>, h.h2)),
                  ShiftRight(h.h1, 0), 0)

\* Hash.cyrb53.
cyrb53(str, seed) ==
    LET h == cyrb53Words(str, seed)
    IN  AddDigits(Times4294967296(And32(<<255, 255, 31, 0>>, h.h2)),
                  ShiftRight(h.h1, 0), 0)

\* ------------------------------------------------------------- registry
\* Mutant of the key resolution: `false` is hashed like any other boolean.
readKey_NoOptOut(params, optionsKey) ==
    IF ~Truthy(optionsKey) \/ optionsKey.t = "boolean"
    THEN NumKey(hashFunction[params])
    ELSE optionsKey

\* Key resolution of read(): options.key unless it is falsy or a boolean,
\* in which case the hash of the params; `false` opts out.
readKey(params, optionsKey) ==
    IF optionsKey # False /\ (~Truthy(optionsKey) \/ optionsKey.t = "boolean")
    THEN NumKey(hashFunction[params])
    ELSE optionsKey

_hasRepositoryHttpReadPendingRequest(this, key) ==
    Truthy(key) /\ key \in DOMAIN readPendingRequests[this]

\* Mutant of the deletion: the entry stays in the map.
_deleteRepositoryHttpReadPendingRequest_Keeps(map, key) ==
    map

_deleteRepositoryHttpReadPendingRequest(map, key) ==
    [k \in DOMAIN map \ {key} |-> map[k]]

\* pendingRequest.count++ of the clone function: the entry found under key
\* gains one subscriber.
_cloneRepositoryHttpReadPendingRequest(reqs, map, key) ==
    [reqs EXCEPT ![map[key]].count = @ + 1]

\* _readPendingRequests.set(key, {abort, responsePromise, count: 0}) for the
\* request just issued (the last of reqs).
_setRepositoryHttpReadPendingRequest(map, key, id) ==
    [k \in DOMAIN map \cup {key} |-> IF k = key THEN id ELSE map[k]]

\* Mutants of the 'abort' listener: one aborts the underlying request
\* whatever the count, one passes no reason on, one forgets to decrement.
abortListener_AbortsAlways(req, reason) ==
    requestAbort([req EXCEPT !.count = @ - 1], reason)

abortListener_DropsReason(req, reason) ==
    LET dec == [req EXCEPT !.count = @ - 1]
    IN  IF dec.count = 0 THEN requestAbort(dec, NoReason) ELSE dec

abortListener_NoDecrement(req, reason) ==
    IF req.count = 0 THEN requestAbort(req, reason) ELSE req

\* The 'abort' listener of a view: the entry loses one subscriber, and the
\* underlying request is aborted when none is left.
abortListener(req, reason) ==
    LET dec == [req EXCEPT !.count = @ - 1]
    IN  IF dec.count = 0 THEN requestAbort(dec, reason) ELSE dec

\* Mutants of the then/catch job: one drops the rejection instead of
\* passing it on, one lets the shared outcome replace the view's own.
cloneSettle_DropsRejection(own, shared) ==
    IF own.state # "pending" THEN own
    ELSE IF shared.state = "fulfilled" THEN shared
    ELSE own

cloneSettle_Overwrites(own, shared) ==
    IF shared.state = "fulfilled" THEN shared
    ELSE IF shared.error = "HTTPError" THEN shared
    ELSE own

\* Mutant of the then/catch job: an aborted envelope of the shared promise
\* is not passed on.
cloneSettle_DropsAborted(own, shared) ==
    IF own.state # "pending" THEN own
    ELSE IF shared.state = "fulfilled" /\ ~shared.aborted THEN shared
    ELSE IF shared.error = "HTTPError" THEN shared
    ELSE own

\* The then/catch job of a view on the shared promise: resolve with the
\* shared envelope, reject with a shared HTTPError; a promise that is
\* already settled keeps its outcome.
cloneSettle(own, shared) ==
    IF own.state # "pending" THEN own
    ELSE IF shared.state = "fulfilled" THEN shared
    ELSE IF shared.error = "HTTPError" THEN shared
    ELSE own

\* ------------------------------------------------- the async wrappers
\* try-branch of read/create/update: adapters applied to the decoded body.
tryEnvelope(response) ==
    DataEnvelope(_responseAdapter(response), _metadataAdapter(response.headers),
                 response.ok)

\* Mutants of the catch-branch of read(): one tests only the class of the
\* error, one resolves every failure as aborted.
readCatch_IgnoresSignal(aborted, reason, error) ==
    IF error = "HTTPError"
    THEN Rejected(error)
    ELSE AbortedEnvelope(reason)

readCatch_NeverThrows(aborted, reason, error) ==
    AbortedEnvelope(reason)

\* catch-branch of read().
readCatch(aborted, reason, error) ==
    IF ~aborted /\ error = "HTTPError"
    THEN Rejected(error)
    ELSE AbortedEnvelope(reason)

\* catch-branch of create(), update() and remove().
mutationCatch(aborted, reason, error) ==
    IF ~aborted
    THEN Rejected(error)
    ELSE AbortedEnvelope(reason)

catch(req, error) ==
    IF req.method = "get"
    THEN readCatch(req.aborted, req.reason, error)
    ELSE mutationCatch(req.aborted, req.reason, error)

\* Mutant of the settlement: the key is deleted from the registry of every
\* instance.
Settle_DeletesEverywhere(o, result, error) ==
    /\ requests' = [requests EXCEPT ![o].stage = "settled",
                                    ![o].response = NoResponse,
                                    ![o].result = result,
                                    ![o].error = error,
                                    ![o].abortedAtCatch =
                                        (error # "none" /\ requests[o].aborted)]
    /\ readPendingRequests' =
          IF requests[o].method = "get" /\ requests[o].key # False
          THEN [this \in Repositories |->
                   _deleteRepositoryHttpReadPendingRequest(
                       readPendingRequests[this], requests[o].key)]
          ELSE readPendingRequests
    /\ views' = [v \in ViewIds |->
                    IF views[v].request = o
                    THEN [views[v] EXCEPT !.liveAtSettle = ~views[v].aborted]
                    ELSE views[v]]
    /\ UNCHANGED <<utilityVars, clients, hashFunction>>

\* Mutant of the settlement: the wrapper settles and leaves the entry in the
\* registry.
Settle_KeepsEntry(o, result, error) ==
    /\ requests' = [requests EXCEPT ![o].stage = "settled",
                                    ![o].response = NoResponse,
                                    ![o].result = result,
                                    ![o].error = error,
                                    ![o].abortedAtCatch =
                                        (error # "none" /\ requests[o].aborted)]
    /\ views' = [v \in ViewIds |->
                    IF views[v].request = o
                    THEN [views[v] EXCEPT !.liveAtSettle = ~views[v].aborted]
                    ELSE views[v]]
    /\ UNCHANGED <<utilityVars, clients, hashFunction, readPendingRequests>>

\* The wrapper of request o settles with `result`; a read with a key deletes
\* the registry entry found under its key.
Settle(o, result, error) ==
    /\ requests' = [requests EXCEPT ![o].stage = "settled",
                                    ![o].response = NoResponse,
                                    ![o].result = result,
                                    ![o].error = error,
                                    ![o].abortedAtCatch =
                                        (error # "none" /\ requests[o].aborted)]
    /\ readPendingRequests' =
          IF requests[o].method = "get" /\ requests[o].key # False
          THEN [readPendingRequests EXCEPT ![requests[o].repo] =
                   _deleteRepositoryHttpReadPendingRequest(@, requests[o].key)]
          ELSE readPendingRequests
    /\ views' = [v \in ViewIds |->
                    IF views[v].request = o
                    THEN [views[v] EXCEPT !.liveAtSettle = ~views[v].aborted]
                    ELSE views[v]]
    /\ UNCHANGED <<utilityVars, clients, hashFunction>>

\* ----------------------------------------------------------------- actions
CanIssue == Len(requests) < MaxRequests

\* UrlBuilder.path: rendering throws when a required path parameter has no
\* valid value.
Renderable(params) == params \notin BadParams

\* repository.read(params, {key: optionsKey, abortController}): what the call
\* does to the repository.  `abortController` says whether the caller passes
\* a controller of its own.  The call that issues the request hands it to
\* HttpClient.request, which makes it the controller of that request; a
\* call that finds a pending entry returns the clone and drops its options.
repositoryReadOptions(this, params, optionsKey, abortController) ==
    LET key == readKey(params, optionsKey)
        id == Len(requests) + 1
        caller == Len(views) + 1
    IN  IF key # False /\ _hasRepositoryHttpReadPendingRequest(this, key)
        THEN /\ Len(views) < MaxViews
             /\ requests' = _cloneRepositoryHttpReadPendingRequest(
                                requests, readPendingRequests[this], key)
             /\ views' = Append(views,
                    [NewView(readPendingRequests[this][key])
                        EXCEPT !.abortController = abortController])
             /\ UNCHANGED <<staticVars, clients, hashFunction, readPendingRequests>>
        ELSE /\ CanIssue
             /\ IF ~Renderable(params)
                THEN /\ requests' = Append(requests, Thrown(this, "get"))
                     /\ UNCHANGED <<staticVars, clients, hashFunction, readPendingRequests, views>>
                ELSE IF key = False
                THEN /\ requests' = Append(requests, NewRequest(this, "get", key))
                     /\ UNCHANGED <<staticVars, clients, hashFunction, readPendingRequests, views>>
                ELSE /\ Len(views) < MaxViews
                     /\ LET map == _setRepositoryHttpReadPendingRequest(
                                       readPendingRequests[this], key, id)
                        IN  /\ readPendingRequests' =
                                  [readPendingRequests EXCEPT ![this] = map]
                            /\ requests' = _cloneRepositoryHttpReadPendingRequest(
                                  Append(requests,
                                      [NewRequest(this, "get", key)
                                          EXCEPT !.abortController =
                                              IF abortController THEN caller ELSE 0]),
                                  map, key)
                            /\ views' = Append(views,
                                  [NewView(map[key])
                                      EXCEPT !.abortController = abortController])
                     /\ UNCHANGED <<staticVars, clients, hashFunction>>

\* repository.read(params, {key: optionsKey}): the call without a controller
\* of the caller's.
repositoryRead(this, params, optionsKey) ==
    repositoryReadOptions(this, params, optionsKey, FALSE)

\* this.read(params, {key: optionsKey}), called by the program itself.
read(this, params, optionsKey) ==
    /\ repositoryRead(this, params, optionsKey)
    /\ UNCHANGED composable

\* Mutant of create / update / remove: the request is entered in the
\* registry under the fingerprint of its params, as a read's is.
Mutation_Registers(this, method, params) ==
    /\ CanIssue
    /\ requests' = Append(requests, NewRequest(this, method, False))
    /\ readPendingRequests' =
          [readPendingRequests EXCEPT ![this] =
              _setRepositoryHttpReadPendingRequest(
                  @, NumKey(hashFunction[params]), Len(requests) + 1)]
    /\ UNCHANGED <<utilityVars, clients, hashFunction, views>>

\* this.create / update / remove: a request of their own, unless the URL
\* cannot be built.
Mutation(this, method, params) ==
    /\ CanIssue
    /\ requests' = Append(requests, IF Renderable(params)
                                    THEN NewRequest(this, method, False)
                                    ELSE Thrown(this, method))
    /\ UNCHANGED <<utilityVars, clients, hashFunction, readPendingRequests, views>>

create(this, params) == Mutation(this, "post", params)
update(this, params) == Mutation(this, "put", params)
remove(this, params) == Mutation(this, "delete", params)

\* abort(reason) of the object returned by create/update/remove or by a
\* read with key: false.
abort(o) ==
    /\ requests[o].key = False
    /\ requests[o].stage # "thrown"
    /\ IF requests[o].aborted
       THEN UNCHANGED vars
       ELSE /\ requests' = [requests EXCEPT ![o] = requestAbort(@, HandleReason(o))]
            /\ UNCHANGED <<utilityVars, clients, hashFunction, readPendingRequests, views>>

\* this.read(params, {abortController}), called by the program itself.
readOptions(this, params, abortController) ==
    /\ repositoryReadOptions(this, params, Undefined, abortController)
    /\ UNCHANGED composable

\* abortController.abort(reason) on the controller the caller of view v
\* passed to read: the signal of every request made with that controller
\* aborts.  The returned abort functions are not called.
controllerAbort(v) ==
    /\ views[v].abortController
    /\ IF views[v].controllerAborted
       THEN UNCHANGED vars
       ELSE /\ views' = [views EXCEPT ![v].controllerAborted = TRUE]
            /\ requests' = [o \in RequestIds |->
                   IF requests[o].abortController = v /\ ~requests[o].aborted
                   THEN [requests[o] EXCEPT !.aborted = TRUE,
                                            !.reason = ControllerReason(v)]
                   ELSE requests[o]]
            /\ UNCHANGED <<utilityVars, clients, hashFunction, readPendingRequests>>

\* abort(reason) of a view: controller.abort(reason); the listener runs
\* once, on the first abort.
viewAbortEffect(v) ==
    IF views[v].aborted
    THEN UNCHANGED <<staticVars, clients, repositoryVars>>
    ELSE /\ views' = [views EXCEPT
                ![v].aborted = TRUE,
                ![v].reason = ViewReason(v),
                ![v].result = IF @.state = "pending"
                              THEN AbortedEnvelope(ViewReason(v)) ELSE @]
         /\ requests' = [requests EXCEPT
                ![views[v].request] = abortListener(@, ViewReason(v))]
         /\ UNCHANGED <<staticVars, clients, hashFunction, readPendingRequests>>

\* Mutant of a view's abort: the listener acts on the entry found under the
\* key at the time of the abort, not on the entry the view was made from.
viewAbort_ThroughRegistry(v) ==
    IF views[v].aborted
    THEN UNCHANGED vars
    ELSE LET own == views[v].request
             map == readPendingRequests[requests[own].repo]
             o == IF requests[own].key \in DOMAIN map
                  THEN map[requests[own].key] ELSE own
         IN  /\ views' = [views EXCEPT
                    ![v].aborted = TRUE,
                    ![v].reason = ViewReason(v),
                    ![v].result = IF @.state = "pending"
                                  THEN AbortedEnvelope(ViewReason(v)) ELSE @]
             /\ requests' = [requests EXCEPT
                    ![o] = abortListener(@, ViewReason(v))]
             /\ UNCHANGED <<utilityVars, clients, hashFunction, readPendingRequests>>

\* abort(reason) of a view, called by the program itself.
viewAbort(v) ==
    /\ viewAbortEffect(v)
    /\ UNCHANGED composable

\* The HTTP promise of request o fulfils with a response.
HttpFulfil(o, response) ==
    /\ requests[o].stage = "http"
    /\ IF requests[o].method = "delete"
       THEN Settle(o, OkEnvelope(response.ok), "none")
       ELSE /\ requests' = [requests EXCEPT ![o].stage = "json",
                                           ![o].response = response]
            /\ UNCHANGED <<utilityVars, clients, hashFunction, readPendingRequests, views>>

\* The HTTP promise of request o rejects.
HttpReject(o, error) ==
    /\ requests[o].stage = "http"
    /\ error = "AbortError" => requests[o].aborted
    /\ Settle(o, catch(requests[o], error), error)

\* httpResponse.json() fulfils; the adapters run and may throw.
JsonFulfil(o, adapterThrows) ==
    /\ requests[o].stage = "json"
    /\ IF adapterThrows
       THEN Settle(o, catch(requests[o], "AdapterError"), "AdapterError")
       ELSE Settle(o, tryEnvelope(requests[o].response), "none")

\* httpResponse.json() rejects.
JsonReject(o, error) ==
    /\ requests[o].stage = "json"
    /\ error = "AbortError" => requests[o].aborted
    /\ Settle(o, catch(requests[o], error), error)

\* The then/catch job a view registered on the shared promise runs.
viewDeliverEffect(v) ==
    /\ requests[views[v].request].stage = "settled"
    /\ ~views[v].delivered
    /\ views' = [views EXCEPT
           ![v].delivered = TRUE,
           ![v].liveAtDelivery = ~views[v].aborted,
           ![v].result = cloneSettle(@, requests[views[v].request].result)]
    /\ UNCHANGED <<staticVars, clients, hashFunction, readPendingRequests, requests>>

\* That job, for a view the program itself holds.
viewDeliver(v) ==
    /\ viewDeliverEffect(v)
    /\ UNCHANGED composable

\* execute(params) of the read composable: the refs are reset and
\* repository.read is called, in one synchronous block.
execute(params) ==
    /\ composable' = [composable EXCEPT !.status = "loading",
                                        !.error = "undefined",
                                        !.item = "undefined",
                                        !.data = NoValue]
    /\ repositoryRead(1, params, Undefined)

\* abort(reason) as returned by execute: settling the view's promise queues
\* the then job that execute registered on it.
executeAbort(v) ==
    /\ viewAbortEffect(v)
    /\ composable' = [composable EXCEPT !.jobs =
           IF ~views[v].aborted /\ views[v].result.state = "pending"
           THEN Append(@, v) ELSE @]

\* The then/catch job a view registered on the shared promise runs and
\* settles the view's promise, which queues the job of execute.
executeDeliver(v) ==
    /\ viewDeliverEffect(v)
    /\ composable' = [composable EXCEPT !.jobs =
           IF views[v].result.state = "pending" THEN Append(@, v) ELSE @]

\* A then handler that reports success for every fulfilled promise.
thenHandler_IgnoresAborted(refs, result) ==
    [refs EXCEPT
        !.data = IF "data" \in result.keys THEN Value(result.data) ELSE NoValue,
        !.item = IF "item" \in result.keys THEN result.item ELSE "undefined",
        !.metadata = IF "metadata" \in result.keys THEN Value(result.metadata)
                     ELSE NoValue,
        !.status = "success"]

\* The handlers execute registered on responsePromise.
thenHandler(refs, result) ==
    [refs EXCEPT
        !.data = IF "data" \in result.keys THEN Value(result.data) ELSE NoValue,
        !.item = IF "item" \in result.keys THEN result.item ELSE "undefined",
        !.metadata = IF "metadata" \in result.keys THEN Value(result.metadata)
                     ELSE NoValue,
        !.status = IF result.aborted THEN "idle" ELSE "success"]

catchHandler(refs, result) ==
    [refs EXCEPT !.error = result.error, !.status = "error"]

\* A job queue that runs the job queued last.
executeThen_NewestFirst ==
    /\ composable.jobs # <<>>
    /\ \A v \in ViewIds :
          requests[views[v].request].stage = "settled" => views[v].delivered
    /\ LET n == Len(composable.jobs)
           result == views[composable.jobs[n]].result
           refs == [composable EXCEPT !.jobs = SubSeq(@, 1, n - 1)]
       IN  composable' = IF result.state = "rejected"
                         THEN catchHandler(refs, result)
                         ELSE thenHandler(refs, result)
    /\ UNCHANGED <<staticVars, clients, repositoryVars>>

\* The first queued job of execute runs; the jobs of the views, queued when
\* the shared promise settled, run before it.
executeThen ==
    /\ composable.jobs # <<>>
    /\ \A v \in ViewIds :
          requests[views[v].request].stage = "settled" => views[v].delivered
    /\ LET result == views[Head(composable.jobs)].result
           refs == [composable EXCEPT !.jobs = Tail(@)]
       IN  composable' = IF result.state = "rejected"
                         THEN catchHandler(refs, result)
                         ELSE thenHandler(refs, result)
    /\ UNCHANGED <<staticVars, clients, repositoryVars>>

\* new HttpClient(options), without a client of its own.
HttpClient(options) ==
    /\ Len(clients) < MaxClients
    /\ clients' = Append(clients, [_client |-> kyCreate(options),
                                   _prefixUrl |-> options.prefixUrl])
    /\ UNCHANGED <<utilityVars, hashFunction, readPendingRequests, requests, views>>

\* clients[c].extend(options).
extend(c, options) ==
    /\ clients' = [clients EXCEPT
           ![c]._client = kyExtend(@, options),
           ![c]._prefixUrl = Coalesce(options.prefixUrl, @)]
    /\ UNCHANGED <<utilityVars, hashFunction, readPendingRequests, requests, views>>

\* clients[c].clone(options): new HttpClient({client, urlBuilder}); the
\* constructor finds no prefixUrl among the options it is given.
clone(c, options) ==
    /\ Len(clients) < MaxClients
    /\ clients' = Append(clients,
                         [_client |-> kyExtend(clients[c]._client, options),
                          _prefixUrl |-> "undefined"])
    /\ UNCHANGED <<utilityVars, hashFunction, readPendingRequests, requests, views>>

\* UrlBuilder.build(template, params) and UrlBuilder.path(template, params),
\* called with the string of a template.
callBuild(template, params) ==
    /\ built' = [called |-> TRUE, fn |-> "build", template |-> template,
                 given |-> params,
                 result |-> build(TemplateString(template), params)]
    /\ UNCHANGED <<hashed, pluginVars, composable, clients, repositoryVars>>

callPath(template, params) ==
    /\ built' = [called |-> TRUE, fn |-> "path", template |-> template,
                 given |-> params,
                 result |-> path(TemplateString(template), params)
                            @@ [url |-> NoUrl]]
    /\ UNCHANGED <<hashed, pluginVars, composable, clients, repositoryVars>>

\* Hash.cyrb53(str, seed).  Calls after the first repeat its arguments.
callCyrb53(str, seed) ==
    /\ Len(hashed) < MaxCalls
    /\ hashed # <<>> => (str = hashed[1].str /\ seed = hashed[1].seed)
    /\ hashed' = Append(hashed, [str |-> str, seed |-> seed,
                                 returned |-> cyrb53(str, seed)])
    /\ UNCHANGED <<built, pluginVars, composable, clients, repositoryVars>>

\* createHttpClient({ scope, ...options }).
createHttpClient_Replaces(scopeArg, options) ==
    LET scope == Coalesce(scopeArg, GLOBAL_SCOPE)
    IN  /\ Len(clients) < MaxClients
        /\ clients' = Append(clients, [_client |-> kyCreate(options),
                                       _prefixUrl |-> options.prefixUrl,
                                       _scope |-> scope])
        /\ httpClientInstances' =
               [s \in DOMAIN httpClientInstances \cup {scope} |->
                   IF s = scope THEN Len(clients) + 1
                   ELSE httpClientInstances[s]]
        /\ pluginCall' = [fn |-> "createHttpClient", scope |-> scope,
                          threw |-> FALSE, returned |-> Len(clients) + 1]
        /\ UNCHANGED <<built, hashed, obtained, composable, repositoryVars>>

createHttpClient(scopeArg, options) ==
    LET scope == Coalesce(scopeArg, GLOBAL_SCOPE)
    IN  IF scope \in DOMAIN httpClientInstances
        THEN /\ pluginCall' = [fn |-> "createHttpClient", scope |-> scope,
                               threw |-> TRUE,
                               message |-> <<"httpClient with scope ", scope,
                                             " already exist">>]
             /\ UNCHANGED <<built, hashed, httpClientInstances, obtained,
                            composable, clients, repositoryVars>>
        ELSE /\ Len(clients) < MaxClients
             /\ clients' = Append(clients, [_client |-> kyCreate(options),
                                            _prefixUrl |-> options.prefixUrl,
                                            _scope |-> scope])
             /\ httpClientInstances' =
                    [s \in DOMAIN httpClientInstances \cup {scope} |->
                        IF s = scope THEN Len(clients) + 1
                        ELSE httpClientInstances[s]]
             /\ pluginCall' = [fn |-> "createHttpClient", scope |-> scope,
                               threw |-> FALSE, returned |-> Len(clients) + 1]
             /\ UNCHANGED <<built, hashed, obtained, composable, repositoryVars>>

\* removeHttpClient(scope).
removeHttpClient_RemovesGlobal(scope) ==
    IF scope \notin DOMAIN httpClientInstances
    THEN /\ pluginCall' = [fn |-> "removeHttpClient", scope |-> scope,
                           threw |-> TRUE,
                           message |-> <<"httpClient with scope ", scope,
                                         " not exist">>]
         /\ UNCHANGED <<built, hashed, httpClientInstances, obtained,
                        composable, clients, repositoryVars>>
    ELSE /\ httpClientInstances' =
                [s \in DOMAIN httpClientInstances \ {scope} |->
                    httpClientInstances[s]]
         /\ pluginCall' = [fn |-> "removeHttpClient", scope |-> scope,
                           threw |-> FALSE, returned |-> TRUE]
         /\ UNCHANGED <<built, hashed, obtained, composable, clients,
                        repositoryVars>>

removeHttpClient(scope) ==
    IF scope = GLOBAL_SCOPE
    THEN /\ pluginCall' = [fn |-> "removeHttpClient", scope |-> scope,
                           threw |-> TRUE,
                           message |-> <<"You cannot remove httpClient global instance">>]
         /\ UNCHANGED <<built, hashed, httpClientInstances, obtained,
                        composable, clients, repositoryVars>>
    ELSE IF scope \notin DOMAIN httpClientInstances
    THEN /\ pluginCall' = [fn |-> "removeHttpClient", scope |-> scope,
                           threw |-> TRUE,
                           message |-> <<"httpClient with scope ", scope,
                                         " not exist">>]
         /\ UNCHANGED <<built, hashed, httpClientInstances, obtained,
                        composable, clients, repositoryVars>>
    ELSE /\ httpClientInstances' =
                [s \in DOMAIN httpClientInstances \ {scope} |->
                    httpClientInstances[s]]
         /\ pluginCall' = [fn |-> "removeHttpClient", scope |-> scope,
                           threw |-> FALSE, returned |-> TRUE]
         /\ UNCHANGED <<built, hashed, obtained, composable, clients,
                        repositoryVars>>

\* useHttpClient(scope): the returned functions close over the client found.
useHttpClient_FallsBackToGlobal(scopeArg) ==
    LET scope == Coalesce(scopeArg, GLOBAL_SCOPE)
        found == IF scope \in DOMAIN httpClientInstances THEN scope
                 ELSE GLOBAL_SCOPE
    IN  IF found \notin DOMAIN httpClientInstances
        THEN /\ pluginCall' = [fn |-> "useHttpClient", scope |-> scope,
                               threw |-> TRUE,
                               message |-> <<"HttpClient instance not found">>]
             /\ UNCHANGED <<built, hashed, httpClientInstances, obtained,
                            composable, clients, repositoryVars>>
        ELSE /\ Len(obtained) < MaxCalls
             /\ obtained' = Append(obtained,
                                   [scope |-> scope,
                                    client |-> httpClientInstances[found]])
             /\ pluginCall' = [fn |-> "useHttpClient", scope |-> scope,
                               threw |-> FALSE,
                               returned |-> Len(obtained) + 1]
             /\ UNCHANGED <<built, hashed, httpClientInstances, composable,
                            clients, repositoryVars>>

useHttpClient(scopeArg) ==
    LET scope == Coalesce(scopeArg, GLOBAL_SCOPE)
    IN  IF scope \notin DOMAIN httpClientInstances
        THEN /\ pluginCall' = [fn |-> "useHttpClient", scope |-> scope,
                               threw |-> TRUE,
                               message |-> <<"HttpClient instance not found">>]
             /\ UNCHANGED <<built, hashed, httpClientInstances, obtained,
                            composable, clients, repositoryVars>>
        ELSE /\ Len(obtained) < MaxCalls
             /\ obtained' = Append(obtained,
                                   [scope |-> scope,
                                    client |-> httpClientInstances[scope]])
             /\ pluginCall' = [fn |-> "useHttpClient", scope |-> scope,
                               threw |-> FALSE,
                               returned |-> Len(obtained) + 1]
             /\ UNCHANGED <<built, hashed, httpClientInstances, composable,
                            clients, repositoryVars>>

\* requestGet(url) of the functions obtained[i], executing immediately:
\* client.request('get', url) issues the request on the client's ky
\* instance.
requestGet(i, url) ==
    LET client == clients[obtained[i].client]
    IN  /\ pluginCall' = [fn |-> "requestGet", scope |-> obtained[i].scope,
                          threw |-> FALSE,
                          client |-> obtained[i].client,
                          prefixUrl |-> client._client.prefixUrl,
                          input |-> buildUrl(client, url)]
        /\ UNCHANGED <<built, hashed, httpClientInstances, obtained,
                       composable, clients, repositoryVars>>

\* The steps of the event loop that settle promises.
Settlement(responses) ==
    \/ \E o \in RequestIds, resp \in responses : HttpFulfil(o, resp)
    \/ \E o \in RequestIds, e \in HttpErrors : HttpReject(o, e)
    \/ \E o \in RequestIds, t \in BOOLEAN : JsonFulfil(o, t)
    \/ \E o \in RequestIds, e \in JsonErrors : JsonReject(o, e)
    \/ \E v \in ViewIds : viewDeliver(v)

\* Deduplicated reads: the registry and its subscriber views.
Next ==
    \/ \E p \in Params, k \in KeyedOptions : read(1, p, k)
    \/ \E v \in ViewIds : viewAbort(v)
    \/ Settlement({OkResponse})

Spec == Init /\ [][Next]_vars

\* Requests that bypass the registry: create, update, remove and reads with
\* key: false.
NextDirect ==
    \/ \E p \in Params : read(1, p, False)
    \/ \E p \in Params : create(1, p)
    \/ \E p \in Params : update(1, p)
    \/ \E p \in Params : remove(1, p)
    \/ \E o \in RequestIds : abort(o)
    \/ Settlement(Responses)

DirectSpec == Init /\ [][NextDirect]_vars

\* Everything together.
NextFull ==
    \/ \E p \in Params, k \in OptionKeys : read(1, p, k)
    \/ \E p \in Params : create(1, p)
    \/ \E p \in Params : update(1, p)
    \/ \E p \in Params : remove(1, p)
    \/ \E o \in RequestIds : abort(o)
    \/ \E v \in ViewIds : viewAbort(v)
    \/ Settlement({OkResponse})

FullSpec == Init /\ [][NextFull]_vars

\* UrlBuilder: build and path on every template and parameter map.  Both
\* are pure, so a behaviour holds one call.
NextUrl ==
    \/ /\ ~built.called
       /\ \E template \in Templates, params \in ParamMaps :
             callBuild(template, params)
    \/ /\ ~built.called
       /\ \E template \in Templates, params \in ParamMaps :
             callPath(template, params)

UrlSpec == Init /\ [][NextUrl]_vars

\* Hash: cyrb53 on every string and seed, called repeatedly.
NextHash == \E str \in HashStrings, seed \in Seeds : callCyrb53(str, seed)

HashSpec == Init /\ [][NextHash]_vars

\* The plugin API: clients created, looked up, used and removed by scope.
NextPlugin ==
    \/ \E scope \in ScopeArgs, options \in PluginOptions :
          createHttpClient(scope, options)
    \/ \E scope \in Scopes : removeHttpClient(scope)
    \/ \E scope \in ScopeArgs : useHttpClient(scope)
    \/ \E i \in 1..Len(obtained), url \in UrlSpecs : requestGet(i, url)

PluginSpec == Init /\ [][NextPlugin]_vars

\* HttpClient instances: constructed, extended and cloned.
ClientIds == 1..Len(clients)

NextClient ==
    \/ \E options \in ClientOptions : HttpClient(options)
    \/ \E c \in ClientIds, options \in ClientOptions : extend(c, options)
    \/ \E c \in ClientIds, options \in ClientOptions : clone(c, options)

ClientSpec == Init /\ [][NextClient]_vars

\* read, create and update with responses carrying every combination of
\* the metadata headers.
NextMetadata ==
    \/ \E p \in Params : read(1, p, False)
    \/ \E p \in Params : create(1, p)
    \/ \E p \in Params : update(1, p)
    \/ \E o \in RequestIds, resp \in HeaderResponses : HttpFulfil(o, resp)
    \/ \E o \in RequestIds : JsonFulfil(o, FALSE)

MetadataSpec == Init /\ [][NextMetadata]_vars

\* Calls with params the template renders and with params it cannot render.
TemplateParams == {"pB"} \cup BadParams

NextTemplate ==
    \/ \E p \in TemplateParams, k \in OptionKeys : read(1, p, k)
    \/ \E p \in TemplateParams : create(1, p)
    \/ \E p \in TemplateParams : update(1, p)
    \/ \E p \in TemplateParams : remove(1, p)
    \/ \E o \in RequestIds : abort(o)
    \/ \E v \in ViewIds : viewAbort(v)
    \/ Settlement({OkResponse})

TemplateSpec == Init /\ [][NextTemplate]_vars

\* Two instances on the same client and template, reading the same params
\* and therefore under the same key.
SameParams == "pB"

NextInstances ==
    \/ \E this \in Repositories : read(this, SameParams, Undefined)
    \/ \E v \in ViewIds : viewAbort(v)
    \/ Settlement({OkResponse})

InstancesSpec == Init /\ [][NextInstances]_vars

\* Reads of the same params by callers that pass an abortController of their
\* own and by callers that do not.
NextController ==
    \/ \E c \in BOOLEAN : readOptions(1, SameParams, c)
    \/ \E v \in ViewIds : controllerAbort(v)
    \/ \E v \in ViewIds : viewAbort(v)
    \/ Settlement({OkResponse})

ControllerSpec == Init /\ [][NextController]_vars

\* Reads of one key under the event loop's scheduling: a then/catch job
\* queued on a settled promise is run.
NextLive ==
    \/ read(1, SameParams, Undefined)
    \/ \E v \in ViewIds : viewAbort(v)
    \/ Settlement({OkResponse})

LiveSpec ==
    /\ Init
    /\ [][NextLive]_vars
    /\ \A v \in 1..MaxViews : WF_vars(v \in ViewIds /\ viewDeliver(v))

\* One read composable: overlapping executions of the same params, their
\* aborts, and every outcome of the shared request.
NextComposable ==
    \/ execute(SameParams)
    \/ \E v \in ViewIds : executeAbort(v)
    \/ \E o \in RequestIds, resp \in Responses : HttpFulfil(o, resp)
    \/ \E o \in RequestIds, e \in HttpErrors : HttpReject(o, e)
    \/ \E o \in RequestIds, t \in BOOLEAN : JsonFulfil(o, t)
    \/ \E o \in RequestIds, e \in JsonErrors : JsonReject(o, e)
    \/ \E v \in ViewIds : executeDeliver(v)
    \/ executeThen

ComposableSpec == Init /\ [][NextComposable]_vars

\* ==================================================================== claims
InFlight(o) == requests[o].stage \in {"http", "json"}
ViewsOf(o) == {v \in ViewIds : views[v].request = o}
LiveViewsOf(o) == {v \in ViewsOf(o) : ~views[v].aborted}
KeyedReads == {o \in RequestIds : requests[o].method = "get" /\ requests[o].key # False}

\* C1: at most one underlying GET per registry key is in flight at any time:
\* while a read is pending under key k, a further read resolving to k
\* issues no request.
C1_OneGetInFlightPerKey ==
    \A o1, o2 \in KeyedReads :
        (/\ requests[o1].repo = requests[o2].repo
         /\ requests[o1].key = requests[o2].key
         /\ InFlight(o1) /\ InFlight(o2))
            => o1 = o2

\* C2: partial cancellation.  When a view of an in-flight read aborts while
\* another view of that read has not aborted, the abort function of the
\* underlying request is not invoked and its signal is untouched, the
\* aborting view resolves with the aborted envelope carrying its own reason,
\* and no other view changes; and a view that has not aborted, once the
\* shared promise fulfilled and was delivered to it, holds the shared
\* envelope.
C2_PartialAbortStep ==
    \A v \in ViewIds :
        LET o == views[v].request
        IN  (/\ InFlight(o)
             /\ ~views[v].aborted
             /\ Cardinality(LiveViewsOf(o)) >= 2
             /\ views'[v].aborted)
            => /\ requests'[o].abortCalls = requests[o].abortCalls
               /\ requests'[o].aborted = requests[o].aborted
               /\ requests'[o].stage = requests[o].stage
               /\ views'[v].result = AbortedEnvelope(ViewReason(v))
               /\ \A w \in ViewIds \ {v} : views'[w] = views[w]

C2_OthersGetSharedEnvelope ==
    \A w \in ViewIds :
        LET o == views[w].request
        IN  (/\ views[w].delivered
             /\ ~views[w].aborted
             /\ requests[o].result.state = "fulfilled")
            => views[w].result = requests[o].result

C2_PartialCancellation ==
    [][C2_PartialAbortStep]_vars /\ []C2_OthersGetSharedEnvelope

\* C2 witness: one view aborted and holds its own aborted envelope, another
\* view of the same read holds the successful shared envelope, and the
\* underlying abort function was never invoked.
C2_Witness ==
    \E v, w \in ViewIds :
        /\ v # w
        /\ views[v].request = views[w].request
        /\ views[v].result = AbortedEnvelope(ViewReason(v))
        /\ ~views[w].aborted
        /\ views[w].result.state = "fulfilled"
        /\ views[w].result.ok
        /\ "data" \in views[w].result.keys
        /\ requests[views[v].request].abortCalls = 0

\* C3: full cancellation.  When the only view of an in-flight read that has
\* not aborted calls abort, the abort function of the underlying request is
\* invoked with that view's reason, and the view resolves with
\* {ok: false, aborted: true, abortReason: reason} and nothing else.
C3_FullAbortStep ==
    \A v \in ViewIds :
        LET o == views[v].request
        IN  (/\ InFlight(o)
             /\ ~views[v].aborted
             /\ LiveViewsOf(o) = {v}
             /\ views'[v].aborted)
            => /\ requests'[o].abortCalls = requests[o].abortCalls + 1
               /\ requests'[o].abortArg = ViewReason(v)
               /\ requests'[o].aborted
               /\ views'[v].result.state = "fulfilled"
               /\ views'[v].result.keys = {"ok", "aborted", "abortReason"}
               /\ ~views'[v].result.ok
               /\ views'[v].result.aborted
               /\ views'[v].result.abortReason = ViewReason(v)

C3_FullCancellation == [][C3_FullAbortStep]_vars

\* C3 witness: the last live view of an in-flight read has aborted and the
\* underlying request was aborted with its reason.
C3_Witness ==
    \E v \in ViewIds :
        /\ InFlight(views[v].request)
        /\ views[v].aborted
        /\ LiveViewsOf(views[v].request) = {}
        /\ requests[views[v].request].abortArg = ViewReason(v)
        /\ requests[views[v].request].reason = ViewReason(v)

\* C4 (as stated): the views of one read that had not aborted when the
\* shared promise settled never hold different outcomes.
C4_SameOutcomeIfLiveAtSettle ==
    \A v, w \in ViewIds :
        (/\ views[v].request = views[w].request
         /\ views[v].liveAtSettle /\ views[w].liveAtSettle
         /\ views[v].result.state # "pending"
         /\ views[w].result.state # "pending")
        => views[v].result = views[w].result

\* C4 (amended): the views of one read that had not aborted when the
\* then/catch job delivering the shared outcome to them ran all hold the
\* outcome of the shared promise: the same envelope, or the same error.
C4_SameOutcomeIfLiveAtDelivery ==
    \A v, w \in ViewIds :
        (/\ views[v].request = views[w].request
         /\ views[v].delivered /\ views[v].liveAtDelivery
         /\ views[w].delivered /\ views[w].liveAtDelivery)
        => /\ views[v].result = views[w].result
           /\ views[v].result = requests[views[v].request].result
           /\ views[v].result.state # "pending"

\* C4 witness: two views of one read both received the shared outcome.
C4_Witness ==
    \E v, w \in ViewIds :
        /\ v # w
        /\ views[v].request = views[w].request
        /\ views[v].delivered /\ views[v].liveAtDelivery
        /\ views[w].delivered /\ views[w].liveAtDelivery
        /\ views[v].result.state = "rejected"

\* C5: the count of a pending read operation equals the number of views
\* handed out for it whose abort has not fired, and is never negative
\* (a view decrements it once, however often its abort is called).
C5_CountIsLiveViews ==
    \A o \in KeyedReads :
        /\ requests[o].count = Cardinality(LiveViewsOf(o))
        /\ requests[o].count >= 0

\* C5 witness: a read with two views, one of which has aborted.
C5_Witness ==
    \E o \in KeyedReads :
        /\ Cardinality(ViewsOf(o)) = 2
        /\ requests[o].count = 1
        /\ InFlight(o)

\* C6: the registry entry of an operation leaves the registry (is removed
\* or replaced) only in the step in which that operation's shared promise
\* settles, and after an operation settles its key is absent.
C6_RemovedOnlyAtSettlementStep ==
    /\ \A this \in Repositories : \A k \in DOMAIN readPendingRequests[this] :
          (k \notin DOMAIN readPendingRequests'[this]
             \/ readPendingRequests'[this][k] # readPendingRequests[this][k])
          => /\ InFlight(readPendingRequests[this][k])
             /\ requests'[readPendingRequests[this][k]].stage = "settled"
    /\ \A o \in KeyedReads :
          (InFlight(o) /\ requests'[o].stage = "settled")
          => requests[o].key \notin DOMAIN readPendingRequests'[requests[o].repo]

C6_RemovedExactlyOnceAtSettlement == [][C6_RemovedOnlyAtSettlementStep]_vars

\* C7: when the abort of a view drops the count of an in-flight operation
\* to zero, the entry of that operation is no longer in the registry after
\* the abort.
C7_ZeroCountAbortStep ==
    \A v \in ViewIds :
        LET o == views[v].request
        IN  (/\ InFlight(o)
             /\ ~views[v].aborted
             /\ views'[v].aborted
             /\ requests'[o].count = 0)
            => \A k \in DOMAIN readPendingRequests'[requests[o].repo] :
                   readPendingRequests'[requests[o].repo][k] # o

C7_RemovedWhenCountDropsToZero == [][C7_ZeroCountAbortStep]_vars

\* C8: when the shared read fails with an HTTPError and no abort was
\* requested on the underlying request, the shared promise rejects with
\* that error, every view that had not aborted when the outcome was
\* delivered to it rejects with that same error, and no view of the read
\* resolves unless its own abort fired.
C8_HttpErrorReachesEveryView ==
    \A o \in KeyedReads :
        (requests[o].error = "HTTPError" /\ ~requests[o].abortedAtCatch)
        => /\ requests[o].result = Rejected("HTTPError")
           /\ \A v \in ViewsOf(o) :
                /\ (views[v].delivered /\ views[v].liveAtDelivery)
                      => views[v].result = Rejected("HTTPError")
                /\ views[v].result.state = "fulfilled"
                      => /\ views[v].aborted
                         /\ views[v].result = AbortedEnvelope(ViewReason(v))

\* C8 witness: two views of one read both rejected with the HTTPError.
C8_Witness ==
    \E v, w \in ViewIds :
        /\ v # w
        /\ views[v].request = views[w].request
        /\ requests[views[v].request].error = "HTTPError"
        /\ views[v].result = Rejected("HTTPError")
        /\ views[w].result = Rejected("HTTPError")

\* C9: a read resolves with aborted: true only if an abort was requested:
\* the shared promise only if the underlying signal was aborted when the
\* failure was caught, a view only if its own abort fired or the underlying
\* signal was aborted.
C9_AbortedOnlyIfAbortRequested ==
    /\ \A o \in RequestIds :
          (requests[o].method = "get" /\ requests[o].result.aborted)
              => requests[o].abortedAtCatch
    /\ \A v \in ViewIds :
          views[v].result.aborted
              => views[v].aborted \/ requests[views[v].request].abortedAtCatch

\* C10: for read, create, update and remove, a failure observed while the
\* signal of the operation is aborted resolves the returned promise with
\* the aborted envelope carrying the signal's reason and never rejects it:
\* the wrapper of a request whose signal was aborted when its failure was
\* caught, and a view whose abort fired before the shared outcome reached it.
C10_AbortNeverRejects ==
    /\ \A o \in RequestIds :
          (requests[o].error # "none" /\ requests[o].abortedAtCatch)
              => requests[o].result = AbortedEnvelope(requests[o].reason)
    /\ \A v \in ViewIds :
          (views[v].delivered /\ ~views[v].liveAtDelivery)
              => views[v].result = AbortedEnvelope(ViewReason(v))

\* C10 witness: an HTTPError caught by create/update/remove (or by a read)
\* while its signal was aborted, next to a view whose read failed with an
\* HTTPError after the view had aborted.
C10_Witness ==
    /\ \E o \in RequestIds :
          /\ requests[o].method # "get"
          /\ requests[o].error = "HTTPError"
          /\ requests[o].abortedAtCatch
          /\ requests[o].result = AbortedEnvelope(HandleReason(o))
    /\ \E v \in ViewIds :
          /\ views[v].delivered
          /\ views[v].aborted
          /\ requests[views[v].request].result.state = "rejected"

\* C11: an exception thrown by the responseAdapter or the metadataAdapter
\* during read, create or update while no abort was requested rejects the
\* returned promise with that exception: the promise of the wrapper, and the
\* promise of every view that had not aborted when the outcome reached it.
C11_AdapterExceptionRejects ==
    /\ \A o \in RequestIds :
          (/\ requests[o].method \in {"get", "post", "put"}
           /\ requests[o].error = "AdapterError"
           /\ ~requests[o].abortedAtCatch)
          => requests[o].result = Rejected("AdapterError")
    /\ \A v \in ViewIds :
          (/\ requests[views[v].request].error = "AdapterError"
           /\ ~requests[views[v].request].abortedAtCatch
           /\ views[v].delivered /\ views[v].liveAtDelivery)
          => views[v].result = Rejected("AdapterError")

\* C12: a view settles at most once (a settled view never changes its
\* outcome), and a view whose abort fired before the shared promise settled
\* holds the aborted envelope with its own reason, before and after the
\* shared promise settles and is delivered to it.
C12_SettledViewStep ==
    \A v \in ViewIds :
        views[v].result.state # "pending" => views'[v].result = views[v].result

C12_AbortedBeforeSettleKeepsEnvelope ==
    \A v \in ViewIds :
        (views[v].aborted /\ ~views[v].liveAtSettle)
            => views[v].result = AbortedEnvelope(ViewReason(v))

C12_ViewSettlesOnce ==
    [][C12_SettledViewStep]_vars /\ []C12_AbortedBeforeSettleKeepsEnvelope

\* C12 witness: the shared promise fulfilled with data and was delivered to
\* a view that had aborted before; the view still holds its own envelope.
C12_Witness ==
    \E v \in ViewIds :
        /\ views[v].aborted /\ ~views[v].liveAtSettle
        /\ views[v].delivered
        /\ requests[views[v].request].result.state = "fulfilled"
        /\ "data" \in requests[views[v].request].result.keys
        /\ views[v].result = AbortedEnvelope(ViewReason(v))

\* C13: opt-out.  A read with options.key === false always issues a request
\* of its own, whatever is pending, and neither that call, nor the
\* settlement of its request, nor an abort through its handle changes the
\* registry, a view, or any other request.
C13_OptOutStep ==
    /\ \A this \in Repositories, p \in Params :
          read(this, p, False)
          => /\ Len(requests') = Len(requests) + 1
             /\ requests'[Len(requests')] = NewRequest(this, "get", False)
             /\ \A o \in RequestIds : requests'[o] = requests[o]
             /\ readPendingRequests' = readPendingRequests
             /\ views' = views
    /\ \A o \in RequestIds :
          (/\ requests[o].method = "get" /\ requests[o].key = False
           /\ requests'[o] # requests[o])
          => /\ \A o2 \in RequestIds \ {o} : requests'[o2] = requests[o2]
             /\ readPendingRequests' = readPendingRequests
             /\ views' = views

C13_OptOutBypassesRegistry == [][C13_OptOutStep]_vars

\* C13 witness: while a read is pending under a key with its one view
\* waiting, a read with key false was issued, aborted through its handle and
\* settled; the pending entry and its count are as they were.
C13_Witness ==
    \E o, o2 \in RequestIds, k \in DOMAIN readPendingRequests[1] :
        /\ readPendingRequests[1][k] = o
        /\ InFlight(o) /\ ~requests[o].aborted /\ requests[o].count = 1
        /\ requests[o2].method = "get" /\ requests[o2].key = False
        /\ requests[o2].abortCalls = 1
        /\ requests[o2].stage = "settled"

\* C14: key override.  A read whose options.key is a number or a string uses
\* that value as its registry key: its view is attached to a request
\* registered under that value, to the one already in flight under that
\* value if there is one (whatever the params), and never to a request
\* registered under a different value.
ExplicitKeys == {k \in KeyedOptions : k.t \in {"number", "string"}}

C14_KeyOverrideStep ==
    \A this \in Repositories, p \in Params, k \in ExplicitKeys :
        read(this, p, k)
        => /\ Len(views') = Len(views) + 1
           /\ LET o == views'[Len(views')].request
              IN  /\ requests'[o].key = k
                  /\ \A o1 \in RequestIds :
                        (/\ InFlight(o1)
                         /\ requests[o1].repo = this
                         /\ requests[o1].key = k) => o = o1
                  /\ \A o1 \in RequestIds : requests[o1].key # k => o # o1

C14_ExplicitKeyIsRegistryKey == [][C14_KeyOverrideStep]_vars

\* C15: create, update and remove are never deduplicated.  Each call issues
\* a request of its own, whatever is pending, and neither the call, nor the
\* settlement of its request, nor an abort through its handle changes the
\* registry, the count of an entry, a view, or any other request.
C15_MutationStep ==
    /\ \A this \in Repositories, p \in Params :
          \A m \in {"post", "put", "delete"} :
             Mutation(this, m, p)
             => /\ Len(requests') = Len(requests) + 1
                /\ requests'[Len(requests')] = NewRequest(this, m, False)
                /\ \A o \in RequestIds : requests'[o] = requests[o]
                /\ readPendingRequests' = readPendingRequests
                /\ views' = views
    /\ \A o \in RequestIds :
          (/\ requests[o].method \in {"post", "put", "delete"}
           /\ requests'[o] # requests[o])
          => /\ \A o2 \in RequestIds \ {o} : requests'[o2] = requests[o2]
             /\ readPendingRequests' = readPendingRequests
             /\ views' = views

C15_MutationsBypassRegistry == [][C15_MutationStep]_vars

\* C15 witness: while a read is pending under a key with its one view
\* waiting, a create, update or remove was issued, aborted through its
\* handle and settled; the pending entry and its count are as they were.
C15_Witness ==
    \E o, o2 \in RequestIds, k \in DOMAIN readPendingRequests[1] :
        /\ readPendingRequests[1][k] = o
        /\ InFlight(o) /\ ~requests[o].aborted /\ requests[o].count = 1
        /\ requests[o2].method \in {"post", "put", "delete"}
        /\ requests[o2].abortCalls = 1
        /\ requests[o2].stage = "settled"

\* C16: the registries of two instances are independent.  No step changes
\* the registry, a request or a view of more than one instance; a read on
\* one instance leaves the other instance's registry, requests and views as
\* they are and attaches its view to a request of its own instance; and
\* every entry of an instance's registry is a request of that instance.
RepoOfView(v) == requests[views[v].request].repo

Touched(this) ==
    \/ readPendingRequests'[this] # readPendingRequests[this]
    \/ \E o \in RequestIds : requests[o].repo = this /\ requests'[o] # requests[o]
    \/ \E o \in (1..Len(requests')) \ RequestIds : requests'[o].repo = this
    \/ \E v \in ViewIds : RepoOfView(v) = this /\ views'[v] # views[v]
    \/ \E v \in (1..Len(views')) \ ViewIds :
          requests'[views'[v].request].repo = this

C16_InstanceStep ==
    /\ \A r1, r2 \in Repositories : (Touched(r1) /\ Touched(r2)) => r1 = r2
    /\ \A this \in Repositories :
          read(this, SameParams, Undefined)
          => /\ \A other \in Repositories \ {this} : ~Touched(other)
             /\ requests'[views'[Len(views')].request].repo = this

C16_EntriesAreOwn ==
    \A this \in Repositories : \A k \in DOMAIN readPendingRequests[this] :
        requests[readPendingRequests[this][k]].repo = this

C16_RegistriesIndependent == [][C16_InstanceStep]_vars /\ []C16_EntriesAreOwn

\* C16 witness: both instances registered a read under the same key, each
\* with a request of its own; the first was aborted by its only view and
\* settled, and the entry of the second is still there, in flight, not
\* aborted, with its one subscriber.
C16_Witness ==
    \E o1, o2 \in RequestIds :
        /\ requests[o1].repo = 1 /\ requests[o2].repo = 2
        /\ requests[o1].key = requests[o2].key
        /\ Truthy(requests[o1].key)
        /\ requests[o1].aborted /\ requests[o1].stage = "settled"
        /\ requests[o2].key \in DOMAIN readPendingRequests[2]
        /\ readPendingRequests[2][requests[o2].key] = o2
        /\ InFlight(o2) /\ ~requests[o2].aborted /\ requests[o2].count = 1

\* C17: a read, create, update or remove whose URL template cannot be
\* rendered throws from the call itself: the call issues no request, leaves
\* the registry, every view and every other request as they are, and a call
\* that threw never receives a response.
Throws ==
    /\ Len(requests') = Len(requests) + 1
    /\ requests'[Len(requests')].stage = "thrown"
    /\ \A o \in RequestIds : requests'[o] = requests[o]
    /\ readPendingRequests' = readPendingRequests
    /\ views' = views

C17_TemplateErrorStep ==
    /\ \A this \in Repositories, p \in BadParams :
          /\ \A k \in OptionKeys : read(this, p, k) => Throws
          /\ \A m \in {"post", "put", "delete"} : Mutation(this, m, p) => Throws
    /\ \A o \in RequestIds :
          requests[o].stage = "thrown" => requests'[o] = requests[o]

C17_TemplateErrorsThrowSynchronously == [][C17_TemplateErrorStep]_vars

\* C18: an abort called on a handle after its operation has settled changes
\* no outcome: a view that has settled keeps its outcome, the settled
\* operation keeps its result, and the registry, every other request (so
\* also a later request in flight under the same key, its signal and its
\* count) and every other view stay as they are.
C18_LateAbortStep ==
    /\ \A v \in ViewIds :
          LET o == views[v].request
          IN  (/\ requests[o].stage = "settled"
               /\ ~views[v].aborted
               /\ views'[v].aborted)
              => /\ views[v].result.state # "pending"
                       => views'[v].result = views[v].result
                 /\ requests'[o].result = requests[o].result
                 /\ requests'[o].stage = "settled"
                 /\ \A o2 \in RequestIds \ {o} : requests'[o2] = requests[o2]
                 /\ \A w \in ViewIds \ {v} : views'[w] = views[w]
                 /\ readPendingRequests' = readPendingRequests
    /\ \A o \in RequestIds :
          (/\ requests[o].stage = "settled"
           /\ requests'[o].abortCalls # requests[o].abortCalls)
          => /\ requests'[o].result = requests[o].result
             /\ requests'[o].stage = "settled"
             /\ \A o2 \in RequestIds \ {o} : requests'[o2] = requests[o2]
             /\ \A w \in ViewIds :
                   views'[w].result = views[w].result \/ views[w].result.state = "pending"
             /\ readPendingRequests' = readPendingRequests

MetadataEntry ==
    [h \in MetadataHeaders |->
        CASE h = "Content-Language" -> "contentLanguage"
          [] h = "Accept-Language" -> "acceptLanguage"
          [] h = "X-Total-Count" -> "total"]

C19_MetadataStep ==
    \A o \in RequestIds :
        (requests[o].stage = "json" /\ requests'[o].result.state = "fulfilled")
        => requests'[o].result.metadata =
              {MetadataEntry[h] : h \in requests[o].response.headers \cap MetadataHeaders}

C19_MetadataHasEveryPresentHeader == [][C19_MetadataStep]_vars

\* C20: a client made by clone() with no overrides has the options of the
\* original and builds from every URL spec the URL the original builds, a
\* spec with a leading slash included; a client made by clone(options) has
\* the options given, and the original's for those not given.
C20_CloneStep ==
    \A c \in ClientIds :
        /\ clone(c, NoOptions)
           => LET new == clients'[Len(clients')]
              IN  /\ new._client = clients[c]._client
                  /\ \A url \in UrlSpecs :
                        buildUrl(new, url) = buildUrl(clients[c], url)
        /\ \A options \in ClientOptions :
              clone(c, options)
              => LET new == clients'[Len(clients')]
                 IN  /\ new._client.prefixUrl =
                           Coalesce(options.prefixUrl, clients[c]._client.prefixUrl)
                     /\ new._client.headers =
                           Coalesce(options.headers, clients[c]._client.headers)
                     /\ clients'[c] = clients[c]

C20_CloneResolvesSameUrls == [][C20_CloneStep]_vars


\* ------------------------------------------------------------ UrlBuilder
\* A key the call treats as absent: not in the map, or, for build, bound to
\* undefined.
AbsentKey(fn, params, key) ==
    \/ key \notin DOMAIN params
    \/ fn = "build" /\ params[key].type = "undefined"

ValidScalar(v) ==
    /\ v.type \in {"boolean", "string", "number"}
    /\ ~(v.type = "string" /\ trim(v.str) = <<>>)

\* The rendering the rules prescribe for the segments of a template, read
\* from left to right.
RECURSIVE C21_Rendering(_, _, _)
C21_Rendering(fn, segs, params) ==
    IF segs = <<>> THEN [threw |-> FALSE, key |-> <<>>, text |-> <<>>]
    ELSE LET seg == Head(segs)
             key == <<seg.key>>
             rest == C21_Rendering(fn, Tail(segs), params)
             here == CASE seg.kind = "literal" -> SegmentString(seg)
                       [] AbsentKey(fn, params, key) -> <<>>
                       [] OTHER -> (IF seg.slash THEN <<"/">> ELSE <<>>)
                                   \o encodeURIComponent(params[key].str)
         IN  IF seg.kind = "param" /\ AbsentKey(fn, params, key)
                /\ ~seg.optional
             THEN [threw |-> TRUE, key |-> key, text |-> <<>>]
             ELSE [rest EXCEPT !.text = here \o @]

\* Every placeholder of the template has an absent key or a valid scalar.
C21_Covered ==
    \A i \in 1..Len(built.template) :
        LET seg == built.template[i]
        IN  seg.kind = "param" =>
                \/ AbsentKey(built.fn, built.given, <<seg.key>>)
                \/ ValidScalar(built.given[<<seg.key>>])

\* C21: in a call whose placeholders have absent keys or valid scalar
\* values, an absent optional placeholder vanishes with its leading "/",
\* an absent required placeholder makes the call throw the "Missing value"
\* error that names its key, and a present value is spliced in URL-encoded
\* after one "/" if the token had one.
C21_PathRendering ==
    (built.called /\ C21_Covered) =>
        LET expected == C21_Rendering(built.fn, built.template, built.given)
        IN  IF expected.threw
            THEN /\ built.result.threw
                 /\ built.result.message
                        = [kind |-> "Missing value", key |-> expected.key]
            ELSE /\ ~built.result.threw
                 /\ built.result.renderedPath = expected.text
                 /\ built.fn = "build" =>
                        built.result.url.path = expected.text

\* build('/:p/:q?', {p: 'a b'}) returned '/a%20b'.
C21_Witness ==
    /\ built.called
    /\ built.fn = "build"
    /\ TemplateString(built.template) = <<"/", ":", "p", "/", ":", "q", "?">>
    /\ built.given = [k \in {<<"p">>} |-> StringAB]
    /\ ~built.result.threw
    /\ built.result.url.path = <<"/", "a", "%", "2", "0", "b">>

BlankString(v) == v.type = "string" /\ trim(v.str) = <<>>

\* C22: a call whose template has an optional placeholder bound to an
\* empty or whitespace-only string throws.
C22_BlankOptionalFails ==
    (/\ built.called
     /\ \E i \in 1..Len(built.template) :
            LET seg == built.template[i]
            IN  /\ seg.kind = "param"
                /\ seg.optional
                /\ <<seg.key>> \in DOMAIN built.given
                /\ BlankString(built.given[<<seg.key>>]))
        => built.result.threw

\* The key is spliced into the path: the template has a placeholder for it
\* and its value is a valid scalar.
C23_Consumed(key) ==
    /\ \E i \in 1..Len(built.template) :
            /\ built.template[i].kind = "param"
            /\ <<built.template[i].key>> = key
    /\ ValidScalar(built.given[key])

\* The key is written to the query string the call returns (build), or that
\* UrlBuilder.query writes for the remaining params it returns (path).
C23_Serialized(key) ==
    \E pair \in (IF built.fn = "build" THEN built.result.url.query
                 ELSE query(built.result.remainingParams)) : pair.key = key

\* C23: a call leaves the caller's params as they were; when it returns,
\* every key with a boolean, string or number value is either spliced into
\* the path and gone from the remaining params, or written to the query
\* string, never both and never neither, and a key bound to undefined is in
\* neither: the path is the one rendered without the key.
C23_ParamsPartitioned ==
    built.called =>
        /\ built.result.params = built.given
        /\ ~built.result.threw =>
              \A key \in DOMAIN built.given :
                  LET v == built.given[key]
                  IN  /\ v.type \in {"boolean", "string", "number"} =>
                            /\ C23_Consumed(key) <=> ~C23_Serialized(key)
                            /\ C23_Consumed(key)
                                   <=> key \notin DOMAIN built.result.remainingParams
                      /\ v.type = "undefined" =>
                            /\ ~C23_Serialized(key)
                            /\ built.result.renderedPath
                                 = path(TemplateString(built.template),
                                        [k \in DOMAIN built.given \ {key}
                                            |-> built.given[k]]).renderedPath

\* build('/:p', {p: 1, q: 'a b'}) returned '/1?q=a+b'.
C23_Witness ==
    /\ built.called
    /\ built.fn = "build"
    /\ TemplateString(built.template) = <<"/", ":", "p">>
    /\ built.given = (<<"p">> :> NumberOne) @@ (<<"q">> :> StringAB)
    /\ built.result.params = built.given
    /\ built.result.url
         = [path |-> <<"/", "1">>, separator |-> TRUE,
            query |-> {[key |-> <<"q">>, value |-> <<"a", "+", "b">>]}]


\* ------------------------------------------------------------------ Hash
\* The number 2^32 * (h2 mod 2^21) + (h1 mod 2^32), digit by digit.
C24_Value(h) == h.h1 \o <<h.h2[1], h.h2[2], h.h2[3] % 32, 0>>

\* C24: every call of cyrb53 returns what the first call with these
\* arguments returned, a number below 2^53 (its digits in base 256 from the
\* seventh on are below 32, 0, 0, ...) that is 2^32 * (h2 mod 2^21)
\* + (h1 mod 2^32).
C24_Cyrb53InRangeAndDeterministic ==
    \A i \in 1..Len(hashed) :
        LET call == hashed[i]
        IN  /\ \A j \in 1..Len(hashed) :
                  (hashed[j].str = call.str /\ hashed[j].seed = call.seed)
                      => hashed[j].returned = call.returned
            /\ \A d \in 1..Len(call.returned) :
                  /\ call.returned[d] \in 0..255
                  /\ d = 7 => call.returned[d] < 32
                  /\ d > 7 => call.returned[d] = 0
            /\ call.returned = C24_Value(cyrb53Words(call.str, call.seed))

\* Hash.cyrb53('test') returned 8713769735217609, twice.
C24_Witness ==
    /\ Len(hashed) = 2
    /\ \A i \in 1..2 :
          /\ hashed[i].str = <<"t", "e", "s", "t">>
          /\ hashed[i].seed = ToWord(0)
          /\ hashed[i].returned = <<201, 225, 184, 157, 32, 245, 30, 0>>


\* ----------------------------------------------------------- plugin API
\* C25: createHttpClient with a scope that is registered, the default scope
\* included, throws 'httpClient with scope <scope> already exist' and
\* leaves the registry and its clients as they were.
C25_DuplicateScopeStep ==
    \A scopeArg \in ScopeArgs, options \in PluginOptions :
        LET scope == IF scopeArg = "undefined" THEN "global" ELSE scopeArg
        IN  (/\ scope \in DOMAIN httpClientInstances
             /\ createHttpClient(scopeArg, options))
                => /\ pluginCall'.threw
                   /\ pluginCall'.message
                        = <<"httpClient with scope ", scope, " already exist">>
                   /\ httpClientInstances' = httpClientInstances
                   /\ clients' = clients

C25_DuplicateScopeThrows == [][C25_DuplicateScopeStep]_vars

\* createHttpClient() threw while 'global' was registered.
C25_Witness ==
    /\ pluginCall.fn = "createHttpClient"
    /\ pluginCall.scope = "global"
    /\ pluginCall.threw
    /\ "global" \in DOMAIN httpClientInstances
    /\ clients[httpClientInstances["global"]]._scope = "global"

\* C26: useHttpClient(scope) returns functions bound to the client that is
\* registered under scope, which is the last client created for that scope,
\* or throws 'HttpClient instance not found' when none is registered; it
\* changes neither the registry nor the clients.
C26_LookupStep ==
    \A scopeArg \in ScopeArgs :
        LET scope == IF scopeArg = "undefined" THEN "global" ELSE scopeArg
        IN  useHttpClient(scopeArg) =>
                /\ httpClientInstances' = httpClientInstances
                /\ clients' = clients
                /\ IF scope \in DOMAIN httpClientInstances
                   THEN /\ ~pluginCall'.threw
                        /\ obtained' = Append(obtained,
                               [scope |-> scope,
                                client |-> httpClientInstances[scope]])
                        /\ clients[httpClientInstances[scope]]._scope = scope
                   ELSE /\ pluginCall'.threw
                        /\ pluginCall'.message
                             = <<"HttpClient instance not found">>
                        /\ obtained' = obtained

C26_RegisteredIsLastCreated ==
    \A scope \in DOMAIN httpClientInstances :
        /\ httpClientInstances[scope] \in 1..Len(clients)
        /\ clients[httpClientInstances[scope]]._scope = scope
        /\ \A c \in 1..Len(clients) :
              clients[c]._scope = scope => c <= httpClientInstances[scope]

C26_LookupReturnsRegistered ==
    [][C26_LookupStep]_vars /\ []C26_RegisteredIsLastCreated

\* useHttpClient('apiV2') returned the client of 'apiV2' while 'global' was
\* registered too, after an earlier client of 'apiV2' had been removed.
C26_Witness ==
    /\ pluginCall.fn = "useHttpClient"
    /\ pluginCall.scope = "apiV2"
    /\ ~pluginCall.threw
    /\ DOMAIN httpClientInstances = {"global", "apiV2"}
    /\ obtained[pluginCall.returned].client = httpClientInstances["apiV2"]
    /\ \E c \in 1..Len(clients) :
          /\ clients[c]._scope = "apiV2"
          /\ c # httpClientInstances["apiV2"]

\* C27: removeHttpClient of a registered scope other than 'global' takes
\* the scope out of the registry and changes nothing else; 'global' stays
\* registered once it is; no client changes; and the functions that
\* useHttpClient returned keep sending through their client, with the
\* prefix URL it was created with, whatever the registry holds.
C27_RemoveStep ==
    \A scope \in Scopes :
        (scope \in DOMAIN httpClientInstances /\ removeHttpClient(scope)) =>
            /\ obtained' = obtained
            /\ IF scope = "global"
               THEN /\ pluginCall'.threw
                    /\ httpClientInstances' = httpClientInstances
               ELSE /\ ~pluginCall'.threw
                    /\ DOMAIN httpClientInstances'
                         = DOMAIN httpClientInstances \ {scope}
                    /\ \A s \in DOMAIN httpClientInstances' :
                          httpClientInstances'[s] = httpClientInstances[s]

C27_GlobalStaysStep ==
    "global" \in DOMAIN httpClientInstances =>
        /\ "global" \in DOMAIN httpClientInstances'
        /\ httpClientInstances'["global"] = httpClientInstances["global"]

C27_ClientsStayStep ==
    \A c \in 1..Len(clients) : c \in 1..Len(clients') /\ clients'[c] = clients[c]

C27_RequestStep ==
    \A i \in 1..Len(obtained), url \in UrlSpecs :
        requestGet(i, url) =>
            /\ pluginCall'.client = obtained[i].client
            /\ clients[obtained[i].client]._scope = obtained[i].scope
            /\ pluginCall'.prefixUrl
                 = clients[obtained[i].client]._client.prefixUrl
            /\ pluginCall'.input
                 = (IF url # <<>> /\ url[1] = "/" THEN Tail(url) ELSE url)

C27_RemovalAffectsOnlyLookups ==
    [][/\ C27_RemoveStep
       /\ C27_GlobalStaysStep
       /\ C27_ClientsStayStep
       /\ C27_RequestStep]_vars

\* A request went through the client of a scope that had been removed.
C27_Witness ==
    /\ pluginCall.fn = "requestGet"
    /\ pluginCall.scope = "apiV2"
    /\ "apiV2" \notin DOMAIN httpClientInstances
    /\ pluginCall.prefixUrl = "https://a/"
    /\ pluginCall.input = <<"u", "s">>


\* ------------------------------------------------------- read composable
\* C28: two executions of the composable share one request, exactly one of
\* them aborted and did so before the shared promise settled, the shared
\* request completed with data, and every queued job has run: then data
\* holds the items of the response, the status is success (isError and
\* isLoading are false), and there is one network request.
C28_OneAbortedOfTwo ==
    \A v, w \in ViewIds :
        LET o == views[v].request
        IN  (/\ Len(views) = 2
             /\ v # w
             /\ views[w].request = o
             /\ views[v].aborted /\ ~views[v].liveAtSettle
             /\ ~views[w].aborted
             /\ requests[o].stage = "settled"
             /\ requests[o].result.state = "fulfilled"
             /\ ~requests[o].result.aborted
             /\ views[v].delivered /\ views[w].delivered
             /\ composable.jobs = <<>>)
            => /\ composable.data = Value(requests[o].result.data)
               /\ composable.status = "success"
               /\ Len(requests) = 1

\* The first of two executions aborted, the request then fetched two items,
\* and the composable holds them.
C28_Witness ==
    /\ Len(views) = 2
    /\ views[1].request = views[2].request
    /\ views[1].aborted /\ ~views[1].liveAtSettle
    /\ ~views[2].aborted
    /\ views[1].delivered /\ views[2].delivered
    /\ composable.jobs = <<>>
    /\ composable.status = "success"
    /\ composable.data = Value(<<"i1", "i2">>)

\* C29: the status is one of idle, loading, success and error; with one
\* execution it is loading until the promise of the execution has settled
\* and the handler registered on it has run, and from then on success with
\* the data if the promise fulfilled without the aborted flag, idle with
\* data undefined if it fulfilled as aborted, and error with the error if
\* it rejected.
C29_StatusMachine ==
    /\ composable.status \in {"idle", "loading", "success", "error"}
    /\ Len(views) = 0 => composable.status = "idle"
    /\ Len(views) = 1 =>
          LET result == views[1].result
          IN  IF result.state = "pending" \/ composable.jobs # <<>>
              THEN composable.status = "loading"
              ELSE IF result.state = "rejected"
              THEN /\ composable.status = "error"
                   /\ composable.error = result.error
              ELSE IF result.aborted
              THEN /\ composable.status = "idle"
                   /\ composable.data = NoValue
              ELSE /\ composable.status = "success"
                   /\ composable.data = Value(result.data)

\* The one execution was aborted and the composable is idle without data.
C29_Witness ==
    /\ Len(views) = 1
    /\ views[1].aborted
    /\ views[1].result.aborted
    /\ composable.jobs = <<>>
    /\ composable.status = "idle"
    /\ composable.data = NoValue

\* ------------------------------------------------- reads after an abort
\* C30: a view whose own abort was never called does not hold the aborted
\* envelope of a request that other callers' aborts cancelled; in
\* particular not the view of a read issued after every earlier view of
\* its key had aborted.
C30_NeverAbortedByOthers ==
    \A v \in ViewIds :
        (/\ ~views[v].aborted
         /\ views[v].result.state # "pending"
         /\ requests[views[v].request].abortedAtCatch)
            => ~views[v].result.aborted


\* ------------------------------------------------------- fingerprint zero
\* C32: for every fingerprint the hash function returns, 0 included, a read
\* whose fingerprint is that of an in-flight read of the instance issues no
\* request and attaches to that read, and the settlement of one operation
\* leaves the registry entries of the other operations as they are.
C32_SharedReadStep ==
    \A p \in Params :
        \A o \in KeyedReads :
            (/\ requests[o].repo = 1
             /\ requests[o].key = NumKey(hashFunction[p])
             /\ InFlight(o)
             /\ read(1, p, Undefined))
                => /\ Len(requests') = Len(requests)
                   /\ views'[Len(views')].request = o

C32_SettlementStep ==
    \A o \in KeyedReads :
        (InFlight(o) /\ requests'[o].stage = "settled") =>
            LET map == readPendingRequests[requests[o].repo]
            IN  \A k \in DOMAIN map :
                    map[k] # o =>
                        /\ k \in DOMAIN readPendingRequests'[requests[o].repo]
                        /\ readPendingRequests'[requests[o].repo][k] = map[k]

C32_EveryFingerprintDeduplicates ==
    [][C32_SharedReadStep /\ C32_SettlementStep]_vars


\* ----------------------------------------------------------- no leaked entry
\* C34: when every registered read of an instance has settled, fulfilled or
\* failed, the registry of that instance holds no entry.
C34_NoLeakedEntries ==
    \A this \in Repositories :
        (\A o \in KeyedReads : requests[o].repo = this => ~InFlight(o))
            => DOMAIN readPendingRequests[this] = {}

\* Two registered reads of the instance have settled, one of them by a
\* failure, and a third read is in flight in no instance.
C34_Witness ==
    /\ \E o \in KeyedReads : requests[o].repo = 1 /\ requests[o].stage = "settled"
                             /\ requests[o].error # "none"
    /\ \E o \in KeyedReads : requests[o].repo = 1 /\ requests[o].stage = "settled"
                             /\ requests[o].error = "none"
    /\ \A o \in KeyedReads : ~InFlight(o)
    /\ DOMAIN readPendingRequests[1] = {}


\* ------------------------------------------- deletion precedes observation
\* C35: the wrapper deletes the registry entry of an operation before any of
\* its views receives the shared outcome, so that a read of the same params
\* made after a view has received the outcome never attaches to the settled
\* operation: it is served by an operation that is still in flight.
C35_Holds(o) ==
    LET map == readPendingRequests[requests[o].repo]
    IN  requests[o].key \in DOMAIN map /\ map[requests[o].key] = o

C35_DeliveryStep ==
    \A v \in ViewIds :
        (~views[v].delivered /\ views'[v].delivered)
            => ~C35_Holds(views[v].request)

C35_ReadAfterDeliveryStep ==
    \A v \in ViewIds, p \in Params :
        LET o == views[v].request
        IN  (/\ views[v].delivered
             /\ requests[o].key = NumKey(hashFunction[p])
             /\ read(requests[o].repo, p, Undefined))
                => LET n == views'[Len(views')].request
                   IN  /\ n # o
                       /\ requests'[n].stage \in {"http", "json"}
                       /\ requests'[n].result = Pending

C36_LoadingWhileUnsettled ==
    (\E v \in ViewIds : views[v].result.state = "pending")
        => composable.status = "loading"


\* ------------------------------------------------- every view settles
\* C33: once the shared promise of a registered read has settled, the promise
\* of every view of that read settles too, by fulfilment or by rejection.
C33_EveryViewSettles ==
    \A v \in 1..MaxViews :
        (v \in ViewIds /\ requests[views[v].request].stage = "settled")
            ~> (v \in ViewIds /\ views[v].result.state # "pending")

\* Two views of one read were pending when the shared promise rejected, and
\* both have been rejected by their catch job.
C33_Witness ==
    \E v \in ViewIds, w \in ViewIds :
        /\ v # w
        /\ views[v].request = views[w].request
        /\ views[v].liveAtDelivery /\ views[w].liveAtDelivery
        /\ views[v].delivered /\ views[w].delivered
        /\ views[v].result.state = "rejected"
        /\ views[w].result.state = "rejected"


\* ------------------------------------------------ caller-supplied controller
\* C31: aborting the abortController a caller passed to read resolves that
\* caller's view as aborted and takes one subscriber off the shared
\* operation; the underlying request is aborted only if no subscriber is
\* left, and the other views are untouched.  The same for the call that
\* issued the request and for a call that joined it.
C31_Cancels(v) ==
    LET o == views[v].request
    IN  /\ views'[v].result.state = "fulfilled"
        /\ views'[v].result.aborted
        /\ requests'[o].count = requests[o].count - 1
        /\ requests'[o].aborted = (requests[o].aborted \/ requests[o].count = 1)
        /\ \A w \in ViewIds \ {v} : views'[w] = views[w]

C31_ControllerAbortStep ==
    \A v \in ViewIds :
        (/\ views[v].abortController
         /\ ~views[v].controllerAborted
         /\ ~views[v].aborted
         /\ views[v].result.state = "pending"
         /\ InFlight(views[v].request)
         /\ controllerAbort(v))
            => C31_Cancels(v)

C31_SuppliedControllerCancelsOwnView == [][C31_ControllerAbortStep]_vars

====
